---------------------------- MODULE Spec2Model ----------------------------
(***************************************************************************)
(* A model of the chart and Vimshottari period engine of ZodiacAI's        *)
(* astrology-engine.                                                       *)
(*                                                                         *)
(* Units.  A datetime is an integer number of ticks, TicksPerDay ticks to  *)
(* a day; a 'YYYY-MM-DD' string is the day ordinal it names.  A longitude  *)
(* is an integer number of arcminutes (21600 to the circle), so that the   *)
(* nakshatra span 360/27 degrees is exactly 800.  The durations the code   *)
(* computes in floating point, int(x * 365.25), are computed here as the   *)
(* exact floor of the same product: 365.25 = 1461/4.                       *)
(***************************************************************************)
EXTENDS Integers, Sequences, FiniteSets, TLC

VARIABLES
    request,    \* the call being served: its operation and its arguments
    pc,         \* "start" before the call has run, "done" after
    ret,        \* what the call returned (a record; None before it ran)
    now,        \* the wall clock, datetime.now(), in ticks
    sid_mode,   \* swisseph's process-global sidereal mode
    history     \* earlier calls with their results, oldest first

vars == <<request, pc, ret, now, sid_mode, history>>

(***************************************************************************)
(* Bounds of the model.                                                    *)
(***************************************************************************)
TicksPerDay == 2
MoonGrid == 1
QueryDepth == 3
BirthDay == 3
MaxClock == 2
MaxDashas == 10
CuspGrid == 4

(***************************************************************************)
(* datetime, strftime('%Y-%m-%d'), strptime and timedelta(days=...).       *)
(***************************************************************************)
None == [none |-> TRUE]

strftime(t) == t \div TicksPerDay

strptime(d) == d * TicksPerDay

timedelta(days) == days * TicksPerDay

(***************************************************************************)
(* DashaCalculator: tables.                                                *)
(***************************************************************************)
DASHA_LORDS ==
    <<"Ketu", "Venus", "Sun", "Moon", "Mars", "Rahu", "Jupiter", "Saturn", "Mercury">>

DASHA_YEARS ==
    [Ketu |-> 7, Venus |-> 20, Sun |-> 6, Moon |-> 10, Mars |-> 7,
     Rahu |-> 18, Jupiter |-> 16, Saturn |-> 19, Mercury |-> 17]

NAKSHATRA_LORDS ==
    <<"Ketu", "Venus", "Sun", "Moon", "Mars", "Rahu", "Jupiter", "Saturn", "Mercury",
      "Ketu", "Venus", "Sun", "Moon", "Mars", "Rahu", "Jupiter", "Saturn", "Mercury",
      "Ketu", "Venus", "Sun", "Moon", "Mars", "Rahu", "Jupiter", "Saturn", "Mercury">>

NAKSHATRA_NAMES ==
    <<"Ashwini", "Bharani", "Krittika", "Rohini", "Mrigashira", "Ardra",
      "Punarvasu", "Pushya", "Ashlesha", "Magha", "Purva Phalguni", "Uttara Phalguni",
      "Hasta", "Chitra", "Swati", "Vishakha", "Anuradha", "Jyeshtha",
      "Mula", "Purva Ashadha", "Uttara Ashadha", "Shravana", "Dhanishta", "Shatabhisha",
      "Purva Bhadrapada", "Uttara Bhadrapada", "Revati">>

\* 360 / 27 degrees, in arcminutes
nakshatra_span == 800

\* list.index(lord), 0-based as in the code
LordIndex(lord) == CHOOSE i \in 0..8 : DASHA_LORDS[i + 1] = lord

\* a mutation of LordAt: the cycle begins at Ketu whatever the parent's lord
LordAtFromKetu(start_index, i) == DASHA_LORDS[(i % 9) + 1]

\* DASHA_LORDS[(start_index + i) % 9]
LordAt(start_index, i) == DASHA_LORDS[((start_index + i) % 9) + 1]

\* a mutation of YearsToDays: a year of 365 days
YearsToDaysNoLeap(years) == years * 365

\* int(years * 365.25)
YearsToDays(years) == (years * 1461) \div 4

(***************************************************************************)
(* get_nakshatra_from_moon: the balance is the fraction                    *)
(* balance_num / nakshatra_span.                                           *)
(***************************************************************************)
\* a mutation of get_nakshatra_from_moon: the index is rounded up, not down
get_nakshatra_from_moon_up(moon_longitude) ==
    LET nakshatra_num == ((moon_longitude + nakshatra_span - 1) \div nakshatra_span) % 27
    IN  [nakshatra_num |-> nakshatra_num,
         nakshatra_name |-> NAKSHATRA_NAMES[nakshatra_num + 1],
         balance_num |-> nakshatra_span - (moon_longitude % nakshatra_span)]

get_nakshatra_from_moon(moon_longitude) ==
    LET nakshatra_num == moon_longitude \div nakshatra_span
        position_in_nakshatra == moon_longitude % nakshatra_span
    IN  [nakshatra_num |-> nakshatra_num,
         nakshatra_name |-> NAKSHATRA_NAMES[nakshatra_num + 1],
         balance_num |-> nakshatra_span - position_in_nakshatra]

get_birth_dasha_lord(moon_longitude) ==
    NAKSHATRA_LORDS[get_nakshatra_from_moon(moon_longitude).nakshatra_num + 1]

\* remaining_years is remaining_num / nakshatra_span years
calculate_balance_dasha(moon_longitude, birth_date) ==
    LET nak == get_nakshatra_from_moon(moon_longitude)
        dasha_lord == NAKSHATRA_LORDS[nak.nakshatra_num + 1]
        total_years == DASHA_YEARS[dasha_lord]
        remaining_num == total_years * nak.balance_num
        days_remaining == (remaining_num * 1461) \div (nakshatra_span * 4)
    IN  [dasha_lord |-> dasha_lord,
         start_date |-> birth_date,
         end_date |-> birth_date + timedelta(days_remaining),
         remaining_num |-> remaining_num]

(***************************************************************************)
(* calculate_mahadasha_sequence: num_dashas periods chained end to end     *)
(* from start_date, each of its lord's full length.                        *)
(***************************************************************************)
\* a mutation of MahadashaLoop: the next period starts the day after the last ended
RECURSIVE MahadashaLoopGap(_, _, _, _, _)
MahadashaLoopGap(start_index, i, num_dashas, current_date, mahadashas) ==
    IF i >= num_dashas THEN mahadashas
    ELSE LET lord == LordAt(start_index, i)
             years == DASHA_YEARS[lord]
             days == YearsToDays(years)
             end_date == current_date + timedelta(days)
         IN  MahadashaLoopGap(start_index, i + 1, num_dashas, end_date + timedelta(1),
                 Append(mahadashas,
                     [lord |-> lord,
                      start_date |-> strftime(current_date),
                      end_date |-> strftime(end_date),
                      duration_years |-> years]))

RECURSIVE MahadashaLoop(_, _, _, _, _)
MahadashaLoop(start_index, i, num_dashas, current_date, mahadashas) ==
    IF i >= num_dashas THEN mahadashas
    ELSE LET lord == LordAt(start_index, i)
             years == DASHA_YEARS[lord]
             days == YearsToDays(years)
             end_date == current_date + timedelta(days)
         IN  MahadashaLoop(start_index, i + 1, num_dashas, end_date,
                 Append(mahadashas,
                     [lord |-> lord,
                      start_date |-> strftime(current_date),
                      end_date |-> strftime(end_date),
                      duration_years |-> years]))

calculate_mahadasha_sequence(birth_dasha_lord, start_date, num_dashas) ==
    MahadashaLoop(LordIndex(birth_dasha_lord), 0, num_dashas, start_date, <<>>)

(***************************************************************************)
(* calculate_antardasha.  proportional_years is                            *)
(* mahadasha_years * antardasha_years / 120, so that                       *)
(* int(proportional_years * 365.25) is the floor of the product times      *)
(* 1461 / 480.  The rounded duration_years and duration_months of the      *)
(* returned entries are descriptive and are not kept.                      *)
(***************************************************************************)
AntardashaDays(mahadasha_years, antardasha_years) ==
    (mahadasha_years * antardasha_years * 1461) \div 480

\* a mutation of AntardashaLoop: the computed end is kept as it is
RECURSIVE AntardashaLoopUnclipped(_, _, _, _, _, _)
AntardashaLoopUnclipped(mahadasha_lord, mahadasha_end, start_index, i, current_date, antardashas) ==
    IF i >= 9 THEN antardashas
    ELSE LET antardasha_lord == LordAt(start_index, i)
             days == AntardashaDays(DASHA_YEARS[mahadasha_lord], DASHA_YEARS[antardasha_lord])
             end_date == current_date + timedelta(days)
             out == Append(antardashas,
                        [mahadasha_lord |-> mahadasha_lord,
                         antardasha_lord |-> antardasha_lord,
                         start_date |-> strftime(current_date),
                         end_date |-> strftime(end_date)])
         IN  IF end_date >= mahadasha_end THEN out
             ELSE AntardashaLoopUnclipped(mahadasha_lord, mahadasha_end, start_index, i + 1,
                      end_date, out)

RECURSIVE AntardashaLoop(_, _, _, _, _, _)
AntardashaLoop(mahadasha_lord, mahadasha_end, start_index, i, current_date, antardashas) ==
    IF i >= 9 THEN antardashas
    ELSE LET antardasha_lord == LordAt(start_index, i)
             days == AntardashaDays(DASHA_YEARS[mahadasha_lord], DASHA_YEARS[antardasha_lord])
             computed == current_date + timedelta(days)
             end_date == IF computed > mahadasha_end THEN mahadasha_end ELSE computed
             out == Append(antardashas,
                        [mahadasha_lord |-> mahadasha_lord,
                         antardasha_lord |-> antardasha_lord,
                         start_date |-> strftime(current_date),
                         end_date |-> strftime(end_date)])
         IN  IF end_date >= mahadasha_end THEN out
             ELSE AntardashaLoop(mahadasha_lord, mahadasha_end, start_index, i + 1, end_date, out)

calculate_antardasha(mahadasha_lord, mahadasha_start, mahadasha_end) ==
    AntardashaLoop(mahadasha_lord, mahadasha_end, LordIndex(mahadasha_lord), 0,
                   mahadasha_start, <<>>)

(***************************************************************************)
(* calculate_pratyantardasha: the same split one level down, over          *)
(* 120 * 120.                                                              *)
(***************************************************************************)
PratyantardashaDays(mahadasha_years, antardasha_years, pratyantar_years) ==
    (mahadasha_years * antardasha_years * pratyantar_years * 1461) \div 57600

RECURSIVE PratyantardashaLoop(_, _, _, _, _, _, _)
PratyantardashaLoop(mahadasha_lord, antardasha_lord, antardasha_end, start_index, i, current_date, pratyantardashas) ==
    IF i >= 9 THEN pratyantardashas
    ELSE LET pratyantar_lord == LordAt(start_index, i)
             days == PratyantardashaDays(DASHA_YEARS[mahadasha_lord],
                         DASHA_YEARS[antardasha_lord], DASHA_YEARS[pratyantar_lord])
             computed == current_date + timedelta(days)
             end_date == IF computed > antardasha_end THEN antardasha_end ELSE computed
             out == Append(pratyantardashas,
                        [mahadasha_lord |-> mahadasha_lord,
                         antardasha_lord |-> antardasha_lord,
                         pratyantardasha_lord |-> pratyantar_lord,
                         start_date |-> strftime(current_date),
                         end_date |-> strftime(end_date),
                         duration_days |-> (end_date - current_date) \div TicksPerDay])
         IN  IF end_date >= antardasha_end THEN out
             ELSE PratyantardashaLoop(mahadasha_lord, antardasha_lord, antardasha_end,
                      start_index, i + 1, end_date, out)

calculate_pratyantardasha(mahadasha_lord, antardasha_lord, antardasha_start, antardasha_end) ==
    PratyantardashaLoop(mahadasha_lord, antardasha_lord, antardasha_end,
                        LordIndex(antardasha_lord), 0, antardasha_start, <<>>)

(***************************************************************************)
(* get_current_dasha.  A period is taken when                              *)
(* start <= current_date <= end; the three loops are nested, and a         *)
(* Mahadasha none of whose Antardashas holds the date lets the outer loop  *)
(* go on to the next Mahadasha.                                            *)
(***************************************************************************)
\* current_date: datetime = None
NoDate == -1

\* a mutation of Holds: a period is taken once it has started
HoldsFromStart(period, current_date) == strptime(period.start_date) <= current_date

Holds(period, current_date) ==
    /\ strptime(period.start_date) <= current_date
    /\ current_date <= strptime(period.end_date)

RECURSIVE FindPratyantar(_, _, _)
FindPratyantar(pratyantars, k, current_date) ==
    IF k > Len(pratyantars) THEN None
    ELSE IF Holds(pratyantars[k], current_date) THEN pratyantars[k]
    ELSE FindPratyantar(pratyantars, k + 1, current_date)

RECURSIVE FindAntar(_, _, _, _)
FindAntar(maha, antardashas, j, current_date) ==
    IF j > Len(antardashas) THEN None
    ELSE IF Holds(antardashas[j], current_date)
    THEN LET antar == antardashas[j]
             pratyantars == calculate_pratyantardasha(maha.lord, antar.antardasha_lord,
                                strptime(antar.start_date), strptime(antar.end_date))
         IN  [mahadasha |-> maha,
              antardasha |-> antar,
              pratyantardasha |-> FindPratyantar(pratyantars, 1, current_date),
              current_date |-> strftime(current_date)]
    ELSE FindAntar(maha, antardashas, j + 1, current_date)

RECURSIVE FindMaha(_, _, _)
FindMaha(mahadashas, i, current_date) ==
    IF i > Len(mahadashas) THEN None
    ELSE IF Holds(mahadashas[i], current_date)
    THEN LET maha == mahadashas[i]
             found == FindAntar(maha,
                          calculate_antardasha(maha.lord, strptime(maha.start_date),
                                               strptime(maha.end_date)),
                          1, current_date)
         IN  IF found # None THEN found
             ELSE FindMaha(mahadashas, i + 1, current_date)
    ELSE FindMaha(mahadashas, i + 1, current_date)

get_current_dasha(moon_longitude, birth_date, current_date, clock) ==
    LET date == IF current_date = NoDate THEN clock ELSE current_date
        birth_lord == calculate_balance_dasha(moon_longitude, birth_date).dasha_lord
        mahadashas == calculate_mahadasha_sequence(birth_lord, birth_date, 9)
    IN  FindMaha(mahadashas, 1, date)

(***************************************************************************)
(* generate_complete_dasha_timeline.  The Mahadashas are kept while        *)
(* (maha_start - birth_date).days / 365.25 <= years_ahead, that is while   *)
(* 4 * days <= 1461 * years_ahead.                                         *)
(***************************************************************************)
\* python's timedelta.days: whole days, rounded down
DaysBetween(later, earlier) ==
    IF later >= earlier THEN (later - earlier) \div TicksPerDay
    ELSE 0 - ((earlier - later + TicksPerDay - 1) \div TicksPerDay)

RECURSIVE TimelineLoop(_, _, _, _, _)
TimelineLoop(mahadashas, i, birth_date, years_ahead, detailed_timeline) ==
    IF i > Len(mahadashas) THEN detailed_timeline
    ELSE LET maha == mahadashas[i]
             maha_start == strptime(maha.start_date)
             maha_end == strptime(maha.end_date)
         IN  IF 4 * DaysBetween(maha_start, birth_date) > 1461 * years_ahead
             THEN detailed_timeline
             ELSE TimelineLoop(mahadashas, i + 1, birth_date, years_ahead,
                      Append(detailed_timeline,
                          [mahadasha |-> maha,
                           antardashas |-> calculate_antardasha(maha.lord, maha_start, maha_end)]))

generate_complete_dasha_timeline(moon_longitude, birth_date, years_ahead) ==
    LET balance == calculate_balance_dasha(moon_longitude, birth_date)
        mahadashas == calculate_mahadasha_sequence(balance.dasha_lord, birth_date, 9)
    IN  [birth_date |-> strftime(birth_date),
         birth_nakshatra |-> NAKSHATRA_NAMES[(moon_longitude \div nakshatra_span) + 1],
         birth_dasha_lord |-> balance.dasha_lord,
         balance_at_birth_num |-> balance.remaining_num,
         timeline |-> TimelineLoop(mahadashas, 1, birth_date, years_ahead, <<>>)]

(***************************************************************************)
(* The calls served.  A birth is a Moon longitude and a birth datetime;    *)
(* the Moon is taken at 0 and at MoonGrid evenly spaced places inside      *)
(* each of the 27 nakshatras (odd arcminutes, where the floating-point     *)
(* balance and its exact value floor to the same day count), the birth at  *)
(* every tick of day BirthDay.                                             *)
(***************************************************************************)
MoonLongitudes ==
    {0} \cup { n * nakshatra_span + 2 * ((((2 * i + 1) * nakshatra_span) \div (2 * MoonGrid)) \div 2) + 1 :
                 n \in 0..26, i \in 0..(MoonGrid - 1) }

BirthDates == { strptime(BirthDay) + h : h \in 0..(TicksPerDay - 1) }

Lords == { DASHA_LORDS[i] : i \in 1..9 }

Range(seq) == { seq[i] : i \in 1..Len(seq) }

\* the nine Mahadashas generated for a birth
MahadashasOf(moon_longitude, birth_date) ==
    calculate_mahadasha_sequence(
        calculate_balance_dasha(moon_longitude, birth_date).dasha_lord, birth_date, 9)

AntardashasOf(maha) ==
    calculate_antardasha(maha.lord, strptime(maha.start_date), strptime(maha.end_date))

PratyantardashasOf(antar) ==
    calculate_pratyantardasha(antar.mahadasha_lord, antar.antardasha_lord,
        strptime(antar.start_date), strptime(antar.end_date))

\* the Antardashas of all nine Mahadashas generated for a birth
AllAntardashasOf(moon_longitude, birth_date) ==
    UNION { Range(AntardashasOf(m)) : m \in Range(MahadashasOf(moon_longitude, birth_date)) }

\* the query dates: one tick before, at and one tick after every boundary of every
\* generated Mahadasha and Antardasha and of the Pratyantardashas of the first
\* QueryDepth Antardashas of the first Mahadasha, a date well before the birth,
\* the birth itself, and days past the last period
QueryDates(moon_longitude, birth_date) ==
    LET mahas == MahadashasOf(moon_longitude, birth_date)
        antars == AllAntardashasOf(moon_longitude, birth_date)
        prats == UNION { Range(PratyantardashasOf(AntardashasOf(mahas[1])[j])) :
                           j \in 1..QueryDepth }
        days == UNION { {x.start_date, x.end_date} : x \in Range(mahas) \cup antars \cup prats }
        last == mahas[9].end_date
    IN  { strptime(d) + e : d \in days, e \in {0 - 1, 0, 1} }
            \cup { 0, birth_date, strptime(last + 1), strptime(last + 400) }

\* years_ahead: none of the future, the default 30, the whole cycle
YearsAheadChoices == {0, 30, 120}

TimelineRequests ==
    { [op |-> "generate_complete_dasha_timeline", moon_longitude |-> m, birth_date |-> b,
       years_ahead |-> y] :
        m \in MoonLongitudes, b \in BirthDates, y \in YearsAheadChoices }

BalanceRequests ==
    { [op |-> "calculate_balance_dasha", moon_longitude |-> m, birth_date |-> b] :
        m \in MoonLongitudes, b \in BirthDates }

MahadashaRequests ==
    { [op |-> "calculate_mahadasha_sequence", birth_dasha_lord |-> l, start_date |-> b,
       num_dashas |-> n] :
        l \in Lords, b \in BirthDates, n \in 0..MaxDashas }

\* calculate_antardasha is called on the generated Mahadashas
AntardashaRequests ==
    { [op |-> "calculate_antardasha", mahadasha_lord |-> m.lord,
       mahadasha_start |-> strptime(m.start_date),
       mahadasha_end |-> strptime(m.end_date)] :
        m \in UNION { Range(MahadashasOf(x, b)) : x \in MoonLongitudes, b \in BirthDates } }

\* calculate_pratyantardasha is called on the Antardashas of those
PratyantardashaRequests ==
    { [op |-> "calculate_pratyantardasha", mahadasha_lord |-> a.mahadasha_lord,
       antardasha_lord |-> a.antardasha_lord,
       antardasha_start |-> strptime(a.start_date),
       antardasha_end |-> strptime(a.end_date)] :
        a \in UNION { AllAntardashasOf(x, b) : x \in MoonLongitudes, b \in BirthDates } }

(***************************************************************************)
(* The Vimshottari engine: one call of DashaCalculator, served at once.    *)
(* The calculator keeps no state of its own.                               *)
(***************************************************************************)
Init ==
    /\ \/ \E m \in MoonLongitudes, b \in BirthDates :
             \E q \in QueryDates(m, b) :
                request = [op |-> "get_current_dasha", moon_longitude |-> m,
                           birth_date |-> b, current_date |-> q]
       \/ request \in TimelineRequests
       \/ request \in BalanceRequests
       \/ request \in MahadashaRequests
       \/ request \in AntardashaRequests
       \/ request \in PratyantardashaRequests
    /\ pc = "start"
    /\ ret = None
    /\ now = 0
    /\ sid_mode = "Lahiri"
    /\ history = <<>>

Serve(op, value) ==
    /\ pc = "start"
    /\ request.op = op
    /\ ret' = value
    /\ pc' = "done"
    /\ UNCHANGED <<request, now, sid_mode, history>>

GetCurrentDasha ==
    Serve("get_current_dasha",
          get_current_dasha(request.moon_longitude, request.birth_date,
                            request.current_date, now))

GenerateCompleteDashaTimeline ==
    Serve("generate_complete_dasha_timeline",
          generate_complete_dasha_timeline(request.moon_longitude, request.birth_date,
                                           request.years_ahead))

CalculateBalanceDasha ==
    Serve("calculate_balance_dasha",
          calculate_balance_dasha(request.moon_longitude, request.birth_date))

CalculateMahadashaSequence ==
    Serve("calculate_mahadasha_sequence",
          calculate_mahadasha_sequence(request.birth_dasha_lord, request.start_date,
                                       request.num_dashas))

CalculateAntardasha ==
    Serve("calculate_antardasha",
          calculate_antardasha(request.mahadasha_lord, request.mahadasha_start,
                               request.mahadasha_end))

CalculatePratyantardasha ==
    Serve("calculate_pratyantardasha",
          calculate_pratyantardasha(request.mahadasha_lord, request.antardasha_lord,
                                    request.antardasha_start, request.antardasha_end))

Next ==
    \/ GetCurrentDasha
    \/ GenerateCompleteDashaTimeline
    \/ CalculateBalanceDasha
    \/ CalculateMahadashaSequence
    \/ CalculateAntardasha
    \/ CalculatePratyantardasha

Spec == Init /\ [][Next]_vars

(***************************************************************************)
(* Properties of the Vimshottari engine, over calls that have been served. *)
(***************************************************************************)
Served(op) == pc = "done" /\ request.op = op

DayCount(period) == period.end_date - period.start_date

RECURSIVE SumDays(_, _)
SumDays(periods, i) ==
    IF i > Len(periods) THEN 0 ELSE DayCount(periods[i]) + SumDays(periods, i + 1)

\* the children start on start_day, each ends where the next starts, the last ends on end_day
Tiles(children, start_day, end_day) ==
    /\ Len(children) >= 1
    /\ children[1].start_date = start_day
    /\ \A i \in 1..(Len(children) - 1) : children[i].end_date = children[i + 1].start_date
    /\ children[Len(children)].end_date = end_day
    /\ SumDays(children, 1) = end_day - start_day

\* the end date calculate_balance_dasha returns for the request's birth
BalanceEndDay == strftime(calculate_balance_dasha(request.moon_longitude, request.birth_date).end_date)

\* C1: the first Mahadasha generated for a birth ends on the end date that
\* calculate_balance_dasha returns (it lasts the balance of the birth nakshatra),
\* and the later Mahadashas have their lord's full length.
C1_FirstMahadashaIsBalance ==
    /\ Served("generate_complete_dasha_timeline") =>
          \A i \in 1..Len(ret.timeline) :
             LET maha == ret.timeline[i].mahadasha
             IN  IF i = 1 THEN maha.end_date = BalanceEndDay
                 ELSE DayCount(maha) = YearsToDays(DASHA_YEARS[maha.lord])
    /\ (Served("get_current_dasha") /\ ret # None
          /\ ret.mahadasha.start_date = strftime(request.birth_date)) =>
          ret.mahadasha.end_date = BalanceEndDay

\* the query date of a served get_current_dasha
QueryDate == IF request.current_date = NoDate THEN now ELSE request.current_date

\* the end of the ninth Mahadasha generated for the request's birth
HorizonEnd == strptime(MahadashasOf(request.moon_longitude, request.birth_date)[9].end_date)

\* C2: for a query date from the birth date up to the end of the ninth Mahadasha,
\* get_current_dasha returns the full triple; it returns None only for a query
\* date before the birth or past the horizon.
C2_FullTripleInsideHorizon ==
    Served("get_current_dasha") =>
        /\ (request.birth_date <= QueryDate /\ QueryDate <= HorizonEnd) =>
              (ret # None /\ ret.pratyantardasha # None)
        /\ ret = None => (QueryDate < request.birth_date \/ QueryDate > HorizonEnd)

\* C3: the Antardashas of every generated Mahadasha tile it exactly, and the
\* Pratyantardashas of every generated Antardasha tile that Antardasha exactly.
C3_ChildrenTileParent ==
    /\ Served("generate_complete_dasha_timeline") =>
          \A i \in 1..Len(ret.timeline) :
             Tiles(ret.timeline[i].antardashas, ret.timeline[i].mahadasha.start_date,
                   ret.timeline[i].mahadasha.end_date)
    /\ Served("calculate_antardasha") =>
          Tiles(ret, strftime(request.mahadasha_start), strftime(request.mahadasha_end))
    /\ Served("calculate_pratyantardasha") =>
          Tiles(ret, strftime(request.antardasha_start), strftime(request.antardasha_end))

\* the period of a list that follows the one ending on the query date, if the
\* query date is the boundary shared by two consecutive periods of the list
SharedBoundary(periods, i, date) ==
    /\ i < Len(periods)
    /\ date = strptime(periods[i].end_date)
    /\ date = strptime(periods[i + 1].start_date)

\* C6: when the query date is the boundary shared by two consecutive periods,
\* get_current_dasha returns the later of the two, at each of the three levels.
C6_HalfOpenLookup ==
    Served("get_current_dasha") =>
        LET mahas == MahadashasOf(request.moon_longitude, request.birth_date)
        IN  /\ \A i \in 1..Len(mahas) :
                  SharedBoundary(mahas, i, QueryDate) =>
                      (ret # None /\ ret.mahadasha = mahas[i + 1])
            /\ ret # None =>
                  LET antars == AntardashasOf(ret.mahadasha)
                  IN  \A j \in 1..Len(antars) :
                         SharedBoundary(antars, j, QueryDate) => ret.antardasha # antars[j]
            /\ (ret # None /\ ret.pratyantardasha # None) =>
                  LET prats == PratyantardashasOf(ret.antardasha)
                  IN  \A k \in 1..Len(prats) :
                         SharedBoundary(prats, k, QueryDate) => ret.pratyantardasha # prats[k]

\* C7: get_current_dasha returns None for every query date earlier than the birth
\* date and for every query date later than the end of the ninth Mahadasha.
C7_NoneOutsideHorizon ==
    (Served("get_current_dasha")
        /\ (QueryDate < request.birth_date \/ QueryDate > HorizonEnd)) => ret = None

\* C8: in the list calculate_mahadasha_sequence returns, the first period starts
\* on the given start date and each period ends on the date the next one starts.
C8_MahadashasContiguous ==
    Served("calculate_mahadasha_sequence") =>
        /\ Len(ret) = request.num_dashas
        /\ Len(ret) >= 1 => ret[1].start_date = strftime(request.start_date)
        /\ \A i \in 1..(Len(ret) - 1) : ret[i].end_date = ret[i + 1].start_date

C8_Witness ==
    /\ Served("calculate_mahadasha_sequence")
    /\ request.num_dashas = 9
    /\ request.start_date # strptime(strftime(request.start_date))
    /\ ret[9].start_date > ret[1].end_date

\* C9: the day lengths of the nine Mahadashas generated for a birth sum to the
\* 120-year cycle, 43830 days, less at most one day per period: 43821..43830.
C9_CycleLength ==
    /\ (Served("generate_complete_dasha_timeline") /\ Len(ret.timeline) = 9) =>
          LET total == SumDays([i \in 1..9 |-> ret.timeline[i].mahadasha], 1)
          IN  43821 <= total /\ total <= 43830
    /\ (Served("calculate_mahadasha_sequence") /\ request.num_dashas = 9) =>
          (43821 <= SumDays(ret, 1) /\ SumDays(ret, 1) <= 43830)

C9_Witness ==
    /\ Served("generate_complete_dasha_timeline")
    /\ Len(ret.timeline) = 9
    /\ request.moon_longitude % nakshatra_span # 0
    /\ ret.timeline[9].mahadasha.end_date - ret.timeline[1].mahadasha.start_date = 43826

\* the lords of a list of periods, read from the field that names the level's lord
CyclicFrom(lords, first) ==
    /\ Len(lords) = 9
    /\ lords[1] = first
    /\ \A i \in 1..8 : LordIndex(lords[i + 1]) = (LordIndex(lords[i]) + 1) % 9
    /\ Cardinality(Range(lords)) = 9

\* C10: calculate_antardasha returns exactly nine Antardashas, their lords the
\* fixed order rotated to begin at the Mahadasha's own lord, each lord once;
\* calculate_pratyantardasha likewise, beginning at the Antardasha's lord.
C10_NineLordsFromParent ==
    /\ Served("generate_complete_dasha_timeline") =>
          \A i \in 1..Len(ret.timeline) :
             CyclicFrom([j \in 1..Len(ret.timeline[i].antardashas) |->
                            ret.timeline[i].antardashas[j].antardasha_lord],
                        ret.timeline[i].mahadasha.lord)
    /\ Served("calculate_antardasha") =>
          CyclicFrom([j \in 1..Len(ret) |-> ret[j].antardasha_lord], request.mahadasha_lord)
    /\ Served("calculate_pratyantardasha") =>
          CyclicFrom([j \in 1..Len(ret) |-> ret[j].pratyantardasha_lord],
                     request.antardasha_lord)

C10_Witness ==
    /\ Served("calculate_pratyantardasha")
    /\ request.mahadasha_lord = "Saturn"
    /\ request.antardasha_lord = "Rahu"
    /\ Len(ret) = 9
    /\ ret[1].pratyantardasha_lord = "Rahu"
    /\ ret[9].pratyantardasha_lord = "Mars"

(***************************************************************************)
(* The chart side of the engine.  Swiss Ephemeris is a library outside the *)
(* repository: its answers are represented by mean elements, a tropical    *)
(* longitude at the model's day 0 and a mean daily motion per body, and    *)
(* one ayanamsa value per sidereal mode (arcminutes, near J2000).  The     *)
(* sidereal mode is the library's process-global setting: every operator   *)
(* that calls swe.get_ayanamsa takes the mode in force as its last         *)
(* argument.  A Julian day is counted in ticks from the model's day 0.     *)
(***************************************************************************)
SIGNS ==
    <<"Aries", "Taurus", "Gemini", "Cancer", "Leo", "Virgo",
      "Libra", "Scorpio", "Sagittarius", "Capricorn", "Aquarius", "Pisces">>

\* the keys of PLANETS, in the order of the dict
PLANETS == <<"Sun", "Moon", "Mars", "Mercury", "Jupiter", "Venus", "Saturn", "Rahu">>

\* the keys of a dict of positions once Ketu has been added
PlanetNames == Range(PLANETS) \cup {"Ketu"}

AyanamsaType == {"Lahiri", "Raman", "KP", "Fagan"}

\* ayanamsa_map.get(ayanamsa, swe.SIDM_LAHIRI)
ayanamsa_map(ayanamsa) == IF ayanamsa \in AyanamsaType THEN ayanamsa ELSE "Lahiri"

MeanLongitude ==
    [Sun |-> 2946, Moon |-> 9100, Mars |-> 20350, Mercury |-> 2210,
     Jupiter |-> 5830, Venus |-> 700, Saturn |-> 17420, Rahu |-> 18650]

MeanMotion ==
    [Sun |-> 59, Moon |-> 790, Mars |-> 31, Mercury |-> 82,
     Jupiter |-> 5, Venus |-> 72, Saturn |-> 2, Rahu |-> -3]

\* swe.julday(year, month, day, hour): the day and the hour of day, added
julday(day, hour) == day * TicksPerDay + hour

\* swe.calc_ut(jd, planet_id): result[0][0] and result[0][3]
calc_ut(jd, planet) ==
    [lon |-> (MeanLongitude[planet] + (MeanMotion[planet] * jd) \div TicksPerDay) % 21600,
     speed |-> MeanMotion[planet]]

\* swe.get_ayanamsa(jd), which answers for the mode set by swe.set_sid_mode
get_ayanamsa(jd, mode) ==
    CASE mode = "Lahiri" -> 1431
      [] mode = "Raman" -> 1344
      [] mode = "KP" -> 1425
      [] mode = "Fagan" -> 1484

\* swe.houses(jd, lat, lon, b'P'): the ascendant turns once a day and with
\* the geographic longitude
houses_asc(jd, latitude, longitude) ==
    (4000 + (21600 * (jd % TicksPerDay)) \div TicksPerDay + longitude) % 21600

\* the position dict both calculators build from a tropical longitude
Position(tropical_lon, speed, jd, mode) ==
    LET sidereal_lon == (tropical_lon - get_ayanamsa(jd, mode)) % 21600
        sign_num == sidereal_lon \div 1800
    IN  [longitude |-> sidereal_lon,
         sign |-> SIGNS[sign_num + 1],
         sign_num |-> sign_num + 1,
         degree |-> sidereal_lon % 1800,
         speed |-> speed,
         is_retrograde |-> speed < 0]

\* a mutation of KetuFrom: the flag follows Ketu's speed, as it does for the planets
KetuFromSpeed(rahu) ==
    LET ketu_lon == (rahu.longitude + 10800) % 21600
        ketu_sign_num == ketu_lon \div 1800
    IN  [longitude |-> ketu_lon,
         sign |-> SIGNS[ketu_sign_num + 1],
         sign_num |-> ketu_sign_num + 1,
         degree |-> ketu_lon % 1800,
         speed |-> 0 - rahu.speed,
         is_retrograde |-> (0 - rahu.speed) < 0]

\* Ketu, 180 degrees from Rahu
KetuFrom(rahu) ==
    LET ketu_lon == (rahu.longitude + 10800) % 21600
        ketu_sign_num == ketu_lon \div 1800
    IN  [longitude |-> ketu_lon,
         sign |-> SIGNS[ketu_sign_num + 1],
         sign_num |-> ketu_sign_num + 1,
         degree |-> ketu_lon % 1800,
         speed |-> 0 - rahu.speed,
         is_retrograde |-> TRUE]

(***************************************************************************)
(* BaseCalculator, which the horoscope generators extend.                  *)
(***************************************************************************)
calculate_julian_day(date_obj) == julday(strftime(date_obj), date_obj % TicksPerDay)

get_planetary_position(jd, planet, mode) ==
    LET result == calc_ut(jd, planet)
    IN  Position(result.lon, result.speed, jd, mode)

get_all_planets(jd, mode) ==
    [name \in PlanetNames |->
        IF name = "Ketu" THEN KetuFrom(get_planetary_position(jd, "Rahu", mode))
        ELSE get_planetary_position(jd, name, mode)]

calculate_ascendant(jd, latitude, longitude, mode) ==
    LET sidereal_asc == (houses_asc(jd, latitude, longitude) - get_ayanamsa(jd, mode)) % 21600
        sign_num == sidereal_asc \div 1800
    IN  [longitude |-> sidereal_asc,
         sign |-> SIGNS[sign_num + 1],
         sign_num |-> sign_num + 1,
         degree |-> sidereal_asc % 1800]

calculate_house_from_ascendant(planet_lon, asc_lon) ==
    (((planet_lon - asc_lon) % 21600) \div 1800) + 1

calculate_nakshatra(longitude) ==
    LET nakshatra_num == longitude \div nakshatra_span
        position_in_nakshatra == longitude % nakshatra_span
    IN  [number |-> nakshatra_num + 1,
         name |-> NAKSHATRA_NAMES[nakshatra_num + 1],
         pada |-> (position_in_nakshatra \div (nakshatra_span \div 4)) + 1,
         lord |-> DASHA_LORDS[(nakshatra_num % 9) + 1]]

\* replace(hour=12, minute=0, second=0)
Noon(date) == strptime(strftime(date)) + (TicksPerDay \div 2)

\* DailyHoroscopeGenerator.generate_daily_horoscope, the coordinates given; its
\* texts, scores and timings, which are read off the positions below, are left out
generate_daily_horoscope(birth_datetime, latitude, longitude, target_date, clock, mode) ==
    LET target_dt == Noon(IF target_date # NoDate THEN strptime(target_date) ELSE clock)
        birth_jd == calculate_julian_day(birth_datetime)
        natal_ascendant == calculate_ascendant(birth_jd, latitude, longitude, mode)
        natal_planets == get_all_planets(birth_jd, mode)
        transit_jd == calculate_julian_day(target_dt)
        transit_planets == get_all_planets(transit_jd, mode)
        moon_nakshatra == calculate_nakshatra(transit_planets["Moon"].longitude)
    IN  [horoscope_type |-> "daily",
         period_start |-> strftime(target_dt),
         moon_sign |-> transit_planets["Moon"].sign,
         moon_nakshatra |-> moon_nakshatra.name,
         planetary_transits |->
            [name \in PlanetNames |->
                [sign |-> transit_planets[name].sign,
                 house |-> calculate_house_from_ascendant(transit_planets[name].longitude,
                                                          natal_ascendant.longitude),
                 is_retrograde |-> transit_planets[name].is_retrograde]],
         ayanamsa |-> "Lahiri",
         natal_ascendant |-> natal_ascendant.sign,
         natal_moon_sign |-> natal_planets["Moon"].sign]

(***************************************************************************)
(* KundliCalculator, as the /kundli/generate handler drives the one        *)
(* instance routes.py builds with the default ayanamsa.                    *)
(***************************************************************************)
\* KundliCalculator.calculate_nakshatra
kundli_calculate_nakshatra(longitude) ==
    LET nakshatra_num == longitude \div nakshatra_span
    IN  [nakshatra |-> NAKSHATRA_NAMES[nakshatra_num + 1],
         nakshatra_num |-> nakshatra_num + 1,
         pada |-> ((longitude % nakshatra_span) \div (nakshatra_span \div 4)) + 1]

\* KundliCalculator.calculate_planet_position
calculate_planet_position(jd, planet, mode) ==
    LET result == calc_ut(jd, planet)
    IN  Position(result.lon, result.speed, jd, mode)

\* KundliCalculator.calculate_all_planets: Ketu from Rahu, the Moon with its nakshatra
calculate_all_planets(jd, mode) ==
    [name \in PlanetNames |->
        CASE name = "Ketu" -> KetuFrom(calculate_planet_position(jd, "Rahu", mode))
          [] name = "Moon" ->
                LET moon == calculate_planet_position(jd, "Moon", mode)
                IN  [longitude |-> moon.longitude, sign |-> moon.sign,
                     sign_num |-> moon.sign_num, degree |-> moon.degree,
                     speed |-> moon.speed, is_retrograde |-> moon.is_retrograde,
                     nakshatra |-> kundli_calculate_nakshatra(moon.longitude)]
          [] OTHER -> calculate_planet_position(jd, name, mode)]

\* a mutation of kundli_get_julian_day: the hour of day is taken as it stands
kundli_get_julian_day_local(date, time_zone) == julday(strftime(date), date % TicksPerDay)

\* KundliCalculator._get_julian_day: the hour of day less the timezone offset
kundli_get_julian_day(date, time_zone) ==
    julday(strftime(date), (date % TicksPerDay) - time_zone)

\* KundliCalculator.generate_kundli; self_ayanamsa is the instance's label.
\* The cusps and the two charts, read off the same positions, are left out
generate_kundli(birth_date, latitude, longitude, timezone, self_ayanamsa, mode) ==
    LET jd == kundli_get_julian_day(birth_date, timezone)
        ascendant == calculate_ascendant(jd, latitude, longitude, mode)
        planets == calculate_all_planets(jd, mode)
    IN  [birth_details |-> [date |-> strftime(birth_date),
                            time |-> birth_date % TicksPerDay,
                            ayanamsa |-> self_ayanamsa],
         ascendant |-> ascendant,
         planets |-> planets,
         moon_sign |-> planets["Moon"].sign,
         sun_sign |-> planets["Sun"].sign,
         moon_nakshatra |-> planets["Moon"].nakshatra]

(***************************************************************************)
(* TransitCalculator.                                                      *)
(***************************************************************************)
\* the date the call works with: datetime.now() when the argument is omitted
DateOrNow(date, clock) == IF date = NoDate THEN clock ELSE date

get_current_transits(date, clock, mode) ==
    LET d == DateOrNow(date, clock)
        jd == julday(strftime(d), d % TicksPerDay)
    IN  [name \in PlanetNames |->
            IF name = "Ketu"
            THEN KetuFrom(Position(calc_ut(jd, "Rahu").lon, calc_ut(jd, "Rahu").speed, jd, mode))
            ELSE Position(calc_ut(jd, name).lon, calc_ut(jd, name).speed, jd, mode)]

\* a mutation of calculate_transit_from_moon: the distance between the signs,
\* whichever comes first
calculate_transit_from_moon_distance(transit_planet_sign, natal_moon_sign) ==
    (IF transit_planet_sign >= natal_moon_sign
     THEN transit_planet_sign - natal_moon_sign
     ELSE natal_moon_sign - transit_planet_sign) + 1

calculate_transit_from_moon(transit_planet_sign, natal_moon_sign) ==
    ((transit_planet_sign - natal_moon_sign) % 12) + 1

\* a mutation of check_sade_sati: the neighbouring signs are taken without the
\* wrap between Pisces and Aries
check_sade_sati_unwrapped(natal_moon_sign, current_saturn_sign) ==
    LET current_phase == CASE current_saturn_sign = natal_moon_sign - 1 -> 1
                           [] current_saturn_sign = natal_moon_sign -> 2
                           [] current_saturn_sign = natal_moon_sign + 1 -> 3
                           [] OTHER -> 0
    IN  [in_sade_sati |-> current_phase # 0,
         phase |-> current_phase,
         saturn_sign |-> SIGNS[current_saturn_sign],
         moon_sign |-> SIGNS[natal_moon_sign]]

check_sade_sati(natal_moon_sign, current_saturn_sign) ==
    LET phase_1 == IF natal_moon_sign > 1 THEN natal_moon_sign - 1 ELSE 12
        phase_2 == natal_moon_sign
        phase_3 == (natal_moon_sign % 12) + 1
        current_phase == CASE current_saturn_sign = phase_1 -> 1
                           [] current_saturn_sign = phase_2 -> 2
                           [] current_saturn_sign = phase_3 -> 3
                           [] OTHER -> 0
    IN  [in_sade_sati |-> current_phase # 0,
         phase |-> current_phase,
         saturn_sign |-> SIGNS[current_saturn_sign],
         moon_sign |-> SIGNS[natal_moon_sign]]

check_jupiter_transit(natal_moon_sign, current_jupiter_sign) ==
    LET house_from_moon == calculate_transit_from_moon(current_jupiter_sign, natal_moon_sign)
    IN  [jupiter_sign |-> SIGNS[current_jupiter_sign],
         moon_sign |-> SIGNS[natal_moon_sign],
         house_from_moon |-> house_from_moon,
         is_beneficial |-> house_from_moon \in {2, 5, 7, 9, 11}]

\* the order in which analyze_transit_aspects meets the transiting bodies
TransitOrder == PLANETS \o <<"Ketu">>

Abs(x) == IF x < 0 THEN 0 - x ELSE x

\* the aspect of one transiting body to one natal body: its type and orb
AspectBetween(transit_lon, natal_lon) ==
    LET d == Abs(transit_lon - natal_lon)
        diff == IF d > 10800 THEN 21600 - d ELSE d
    IN  CASE diff <= 480 -> [aspect_type |-> "Conjunction", orb |-> diff]
          [] diff >= 10320 /\ diff <= 11280 -> [aspect_type |-> "Opposition", orb |-> Abs(10800 - diff)]
          [] diff >= 6840 /\ diff <= 7560 -> [aspect_type |-> "Trine", orb |-> Abs(7200 - diff)]
          [] diff >= 5040 /\ diff <= 5760 -> [aspect_type |-> "Square", orb |-> Abs(5400 - diff)]
          [] OTHER -> [aspect_type |-> "None", orb |-> 0]

RECURSIVE AspectLoop(_, _, _, _)
AspectLoop(transits, natal_planets, k, aspects) ==
    IF k >= Len(TransitOrder) * Len(natal_planets) THEN aspects
    ELSE LET transit_planet == TransitOrder[(k \div Len(natal_planets)) + 1]
             natal == natal_planets[(k % Len(natal_planets)) + 1]
             a == AspectBetween(transits[transit_planet].longitude, natal.longitude)
         IN  IF \/ transit_planet \in {"Rahu", "Ketu"}
                \/ natal.planet \in {"Rahu", "Ketu"}
                \/ a.aspect_type = "None"
             THEN AspectLoop(transits, natal_planets, k + 1, aspects)
             ELSE AspectLoop(transits, natal_planets, k + 1,
                             Append(aspects, [transit_planet |-> transit_planet,
                                              natal_planet |-> natal.planet,
                                              aspect_type |-> a.aspect_type,
                                              orb |-> a.orb]))

\* natal_planets is the dict's items in order: a sequence of [planet, longitude]
analyze_transit_aspects(transits, natal_planets) == AspectLoop(transits, natal_planets, 0, <<>>)

\* the sign changes one step of the scan finds, Jupiter, Saturn, Mars in turn
SignChanges(prev_transits, current_transits, current_date) ==
    LET Event(planet) ==
            IF prev_transits[planet].sign # current_transits[planet].sign
            THEN <<[date |-> strftime(current_date), planet |-> planet,
                    sign |-> current_transits[planet].sign]>>
            ELSE <<>>
    IN  Event("Jupiter") \o Event("Saturn") \o Event("Mars")

RECURSIVE ImportantLoop(_, _, _, _, _)
ImportantLoop(current_date, end_date, prev_transits, important_dates, mode) ==
    IF current_date > end_date THEN important_dates
    ELSE LET current_transits == get_current_transits(current_date, current_date, mode)
         IN  ImportantLoop(current_date + timedelta(10), end_date, current_transits,
                           important_dates \o SignChanges(prev_transits, current_transits,
                                                         current_date),
                           mode)

get_important_transit_dates(start_date, days_ahead, mode) ==
    ImportantLoop(start_date, start_date + timedelta(days_ahead),
                  get_current_transits(start_date, start_date, mode), <<>>, mode)

generate_transit_summary(sade_sati, jupiter_transit, aspects) ==
    [overall_period |-> IF jupiter_transit.is_beneficial THEN "Positive" ELSE "Neutral",
     sade_sati_noted |-> sade_sati.in_sade_sati,
     caution |-> Len(SelectSeq(aspects,
                     LAMBDA a : a.aspect_type \in {"Opposition", "Square"})) > 3]

generate_transit_report(natal_moon_sign, natal_planets, current_date, clock, mode) ==
    LET d == DateOrNow(current_date, clock)
        transits == get_current_transits(d, clock, mode)
        sade_sati == check_sade_sati(natal_moon_sign, transits["Saturn"].sign_num)
        jupiter_transit == check_jupiter_transit(natal_moon_sign, transits["Jupiter"].sign_num)
        aspects == analyze_transit_aspects(transits, natal_planets)
        important_dates == get_important_transit_dates(d, 365, mode)
    IN  [date |-> strftime(d),
         current_transits |-> transits,
         sade_sati |-> sade_sati,
         jupiter_transit |-> jupiter_transit,
         transit_aspects |-> aspects,
         important_upcoming_dates |-> SubSeq(important_dates, 1,
                                             IF Len(important_dates) < 10
                                             THEN Len(important_dates) ELSE 10),
         summary |-> generate_transit_summary(sade_sati, jupiter_transit, aspects)]

(***************************************************************************)
(* The engine as one running process.  routes.py builds its calculators at *)
(* import, each constructor setting the sidereal mode to Lahiri, and then  *)
(* serves requests; a handler is an async function with no await in it, so *)
(* each request runs to its end before the next begins.  The clock runs    *)
(* between requests.  history keeps the last two calls, each with the mode *)
(* it was computed under.                                                  *)
(***************************************************************************)
ClockStart == strptime(BirthDay - 1)

ClockEnd == ClockStart + timedelta(MaxClock)

\* Moon longitudes of the births served: those of the first nakshatra
ServiceMoons == { m \in MoonLongitudes : m < nakshatra_span }

\* a date argument: omitted, or noon of the birth day
GivenDates == {NoDate, Noon(strptime(BirthDay))}

\* a 'YYYY-MM-DD' target date: omitted, or the day after the birth day
TargetDates == {NoDate, BirthDay + 1}

\* the birth the chart requests are made for, and its timezone offset in ticks
ServiceBirths == {Noon(strptime(BirthDay))}

Timezones == {0}

\* the ayanamsa systems asked of /kundli/generate
RequestedAyanamsas == {"Lahiri", "Raman"}

\* New Delhi, in arcminutes
BirthPlace == [latitude |-> 1717, longitude |-> 4633]

\* natal positions handed to the transit report, in the order of the dict
NatalPlanets ==
    <<[planet |-> "Sun", longitude |-> 1700], [planet |-> "Moon", longitude |-> 15200],
      [planet |-> "Rahu", longitude |-> 17000]>>

NatalMoonSigns == {3, 9}

ServiceInit ==
    /\ request = [op |-> "startup"]
    /\ pc = "idle"
    /\ ret = None
    /\ now = ClockStart
    /\ sid_mode = "Lahiri"
    /\ history = <<>>

LastTwo(calls) == IF Len(calls) > 2 THEN Tail(calls) ELSE calls

\* a call has run under mode and returned value
Respond(req, value, mode) ==
    /\ request' = req
    /\ ret' = value
    /\ pc' = "done"
    /\ history' = LastTwo(Append(history, [request |-> req, ret |-> value, sid_mode |-> mode]))
    /\ now' = now

\* datetime.now() moves on
Tick ==
    /\ now < ClockEnd
    /\ now' = now + 1
    /\ UNCHANGED <<request, pc, ret, sid_mode, history>>

\* a constructor of BaseCalculator, TransitCalculator, PlanetaryPositions,
\* HouseSystem, DivisionalChartsCalculator, ComprehensiveKundliGenerator or
\* MonthlyHoroscopeGenerator runs
ConstructCalculator ==
    /\ sid_mode' = "Lahiri"
    /\ UNCHANGED <<request, pc, ret, now, history>>

\* POST /kundli/generate
KundliGenerate ==
    \E ayanamsa \in RequestedAyanamsas, birth \in ServiceBirths, timezone \in Timezones :
        LET mode == ayanamsa_map(ayanamsa)
        IN  /\ sid_mode' = mode
            /\ Respond([op |-> "generate_kundli", birth_date |-> birth,
                        latitude |-> BirthPlace.latitude, longitude |-> BirthPlace.longitude,
                        timezone |-> timezone, ayanamsa |-> ayanamsa],
                       generate_kundli(birth, BirthPlace.latitude, BirthPlace.longitude,
                                       timezone, "Lahiri", mode),
                       mode)

\* POST /horoscope/daily
HoroscopeDaily ==
    \E birth \in ServiceBirths, target_date \in TargetDates :
        /\ Respond([op |-> "generate_daily_horoscope", birth_date |-> birth,
                    latitude |-> BirthPlace.latitude, longitude |-> BirthPlace.longitude,
                    target_date |-> target_date],
                   generate_daily_horoscope(birth, BirthPlace.latitude, BirthPlace.longitude,
                                            target_date, now, sid_mode),
                   sid_mode)
        /\ UNCHANGED sid_mode

\* dasha_calc.get_current_dasha
CurrentDasha ==
    \E moon \in ServiceMoons, birth \in ServiceBirths, date \in GivenDates :
        /\ Respond([op |-> "get_current_dasha", moon_longitude |-> moon,
                    birth_date |-> birth, current_date |-> date],
                   get_current_dasha(moon, birth, date, now),
                   sid_mode)
        /\ UNCHANGED sid_mode

\* transit_calc.get_current_transits
CurrentTransits ==
    \E date \in GivenDates :
        /\ Respond([op |-> "get_current_transits", date |-> date],
                   get_current_transits(date, now, sid_mode),
                   sid_mode)
        /\ UNCHANGED sid_mode

\* transit_calc.generate_transit_report
TransitReport ==
    \E natal_moon_sign \in NatalMoonSigns, date \in GivenDates :
        /\ Respond([op |-> "generate_transit_report", natal_moon_sign |-> natal_moon_sign,
                    natal_planets |-> NatalPlanets, current_date |-> date],
                   generate_transit_report(natal_moon_sign, NatalPlanets, date, now, sid_mode),
                   sid_mode)
        /\ UNCHANGED sid_mode

ServiceNext ==
    \/ Tick
    \/ ConstructCalculator
    \/ KundliGenerate
    \/ HoroscopeDaily
    \/ CurrentDasha
    \/ CurrentTransits
    \/ TransitReport

Service == ServiceInit /\ [][ServiceNext]_vars

(***************************************************************************)
(* Properties of the running process.                                      *)
(***************************************************************************)
\* the calls recorded for the daily horoscope, whose result carries 'ayanamsa': 'Lahiri'
LabelledLahiri(call) ==
    call.request.op = "generate_daily_horoscope" /\ call.ret.ayanamsa = "Lahiri"

\* C4: the process-global sidereal mode is Lahiri in every reachable state, and
\* every daily horoscope, which is labelled 'ayanamsa': 'Lahiri', was computed
\* under Lahiri whatever requests came before it.
C4_SiderealModeStaysLahiri ==
    /\ sid_mode = "Lahiri"
    /\ \A i \in DOMAIN history : LabelledLahiri(history[i]) => history[i].sid_mode = "Lahiri"

CoreOps == {"get_current_dasha", "get_current_transits", "generate_transit_report"}

\* C5: two calls of get_current_dasha, get_current_transits or
\* generate_transit_report with identical arguments, an omitted date included,
\* made under the same sidereal mode, return identical results whatever the
\* wall-clock time of each.
C5_ResultsDependOnArgumentsOnly ==
    \A i, j \in DOMAIN history :
        (/\ history[i].request.op \in CoreOps
         /\ history[i].request = history[j].request
         /\ history[i].sid_mode = history[j].sid_mode)
            => history[i].ret = history[j].ret

(***************************************************************************)
(* The chart calculators taken one call at a time: a request is one call   *)
(* with its arguments, served at once, as in the Vimshottari engine above. *)
(***************************************************************************)
\* names a caller may hand to KundliCalculator: the four of the map, and others
AyanamsaNames == AyanamsaType \cup {"Yukteshwar", "lahiri"}

\* timezone offsets in ticks, within the -12..+14 hours the API admits
TimezoneOffsets == {0 - 1, 0, 1}

\* local civil date-times: the ticks of the day before the birth day up to the day after
LocalDateTimes == { strptime(BirthDay - 1) + h : h \in 0..(3 * TicksPerDay - 1) }

\* KundliCalculator(ayanamsa).generate_kundli(...): the constructor sets the
\* mode through _set_ayanamsa and keeps the name given as the chart's label
KundliCalculatorRequests ==
    { [op |-> "KundliCalculator", ayanamsa |-> a, birth_date |-> b, timezone |-> z,
       latitude |-> BirthPlace.latitude, longitude |-> BirthPlace.longitude] :
        a \in AyanamsaNames, b \in ServiceBirths, z \in TimezoneOffsets }

NewKundliCalculator ==
    /\ pc = "start"
    /\ request.op = "KundliCalculator"
    /\ sid_mode' = ayanamsa_map(request.ayanamsa)
    /\ ret' = generate_kundli(request.birth_date, request.latitude, request.longitude,
                              request.timezone, request.ayanamsa,
                              ayanamsa_map(request.ayanamsa))
    /\ pc' = "done"
    /\ UNCHANGED <<request, now, history>>

\* a call that ended in an error carries the error and nothing else
Rejected(value) == DOMAIN value = {"error"}

\* C11: a KundliCalculator given an ayanamsa name outside Lahiri, Raman, KP and
\* Fagan is rejected with an error, and no chart is computed for that name.
C11_UnknownAyanamsaRejected ==
    (Served("KundliCalculator") /\ request.ayanamsa \notin AyanamsaType) => Rejected(ret)

JulianDayRequests ==
    { [op |-> "_get_julian_day", date |-> d, time_zone |-> z] :
        d \in LocalDateTimes, z \in TimezoneOffsets }

GetJulianDay ==
    Serve("_get_julian_day", kundli_get_julian_day(request.date, request.time_zone))

\* the instant a local date-time and its offset denote, in ticks
Instant(date, time_zone) == date - time_zone

\* C12: two (local date-time, offset) pairs that denote the same instant have
\* the same Julian Day, and a later instant has a greater Julian Day, also when
\* taking the offset away crosses midnight into the day before or after.
C12_JulianDayOfInstant ==
    Served("_get_julian_day") =>
        \A d \in LocalDateTimes, z \in TimezoneOffsets :
            LET other == kundli_get_julian_day(d, z)
            IN  /\ Instant(d, z) = Instant(request.date, request.time_zone) => other = ret
                /\ Instant(d, z) > Instant(request.date, request.time_zone) => other > ret

\* a local time in the first tick of a day, east of Greenwich: the instant is the day before
C12_Witness ==
    /\ Served("_get_julian_day")
    /\ request.date % TicksPerDay = 0
    /\ request.time_zone = 1
    /\ ret = kundli_get_julian_day(request.date - 1, 0)
    /\ strftime(request.date - 1) = strftime(request.date) - 1

(***************************************************************************)
(* House placement by cusp intervals: HouseSystem and HouseAnalyzer.       *)
(***************************************************************************)
\* spans of the twelve houses from the first cusp on: equal houses, and the
\* unequal houses of a quadrant system
CuspOffsets ==
    { <<0, 1800, 3600, 5400, 7200, 9000, 10800, 12600, 14400, 16200, 18000, 19800>>,
      <<0, 1500, 3200, 5400, 7600, 9300, 10800, 12300, 14000, 16200, 18400, 20100>> }

\* first cusps: 0, and CuspGrid more spread over the circle, off the sign boundaries
FirstCusps == {0} \cup { k * (21600 \div CuspGrid) + 1027 : k \in 0..(CuspGrid - 1) }

\* the list of house dicts calculate_houses returns, by its cusp longitudes
HousesFrom(first_cusp, offsets) ==
    [i \in 1..12 |-> [house_num |-> i, cusp_longitude |-> (first_cusp + offsets[i]) % 21600]]

ConsistentHouses == { HousesFrom(c, o) : c \in FirstCusps, o \in CuspOffsets }

\* a list no interval of which holds any longitude: every cusp the same
DegenerateHouses == { [i \in 1..12 |-> [house_num |-> i, cusp_longitude |-> 5400]] }

\* the longitudes at and next to the cusps, and the ends of [0, 360)
LongitudesNear(houses) ==
    {0, 21599} \cup
    UNION { { houses[i].cusp_longitude, (houses[i].cusp_longitude + 1) % 21600,
              (houses[i].cusp_longitude - 1) % 21600,
              (houses[i].cusp_longitude + 700) % 21600 } : i \in 1..12 }

\* a mutation of BhavaChalitMatch: the wrap through 360 degrees is not handled
BhavaChalitMatchNoWrap(planet_longitude, house_start, next_cusp) ==
    house_start <= planet_longitude /\ planet_longitude < next_cusp

\* the test of one house in get_planet_house_bhava_chalit
BhavaChalitMatch(planet_longitude, house_start, next_cusp) ==
    LET wraps == next_cusp < house_start
        house_end == IF wraps THEN next_cusp + 21600 ELSE next_cusp
        check_lon == IF wraps /\ planet_longitude < house_start
                     THEN planet_longitude + 21600 ELSE planet_longitude
    IN  house_start <= check_lon /\ check_lon < house_end

RECURSIVE BhavaChalitLoop(_, _, _)
BhavaChalitLoop(planet_longitude, houses, i) ==
    IF i >= 12 THEN 1
    ELSE IF BhavaChalitMatch(planet_longitude, houses[i + 1].cusp_longitude,
                             houses[((i + 1) % 12) + 1].cusp_longitude)
         THEN i + 1
         ELSE BhavaChalitLoop(planet_longitude, houses, i + 1)

get_planet_house_bhava_chalit(planet_longitude, houses) ==
    BhavaChalitLoop(planet_longitude, houses, 0)

\* the test of one house in HouseAnalyzer.find_planet_house
FindPlanetHouseMatch(planet_longitude, current_cusp, next_cusp) ==
    IF next_cusp < current_cusp
    THEN planet_longitude >= current_cusp \/ planet_longitude < next_cusp
    ELSE current_cusp <= planet_longitude /\ planet_longitude < next_cusp

RECURSIVE FindPlanetHouseLoop(_, _, _)
FindPlanetHouseLoop(planet_longitude, house_cusps, i) ==
    IF i >= 12 THEN 1
    ELSE IF FindPlanetHouseMatch(planet_longitude, house_cusps[i + 1].cusp_longitude,
                                 house_cusps[((i + 1) % 12) + 1].cusp_longitude)
         THEN i + 1
         ELSE FindPlanetHouseLoop(planet_longitude, house_cusps, i + 1)

find_planet_house(planet_longitude, house_cusps) ==
    FindPlanetHouseLoop(planet_longitude, house_cusps, 0)

BhavaChalitRequests ==
    UNION { { [op |-> "get_planet_house_bhava_chalit", planet_longitude |-> l, houses |-> h] :
                l \in LongitudesNear(h) } : h \in ConsistentHouses \cup DegenerateHouses }

FindPlanetHouseRequests ==
    UNION { { [op |-> "find_planet_house", planet_longitude |-> l, houses |-> h] :
                l \in LongitudesNear(h) } : h \in ConsistentHouses \cup DegenerateHouses }

GetPlanetHouseBhavaChalit ==
    Serve("get_planet_house_bhava_chalit",
          get_planet_house_bhava_chalit(request.planet_longitude, request.houses))

FindPlanetHouse ==
    Serve("find_planet_house", find_planet_house(request.planet_longitude, request.houses))

\* longitude lies in [cusp, next_cusp), the interval passing through 360 when next_cusp < cusp
InCuspInterval(longitude, cusp, next_cusp) ==
    IF cusp <= next_cusp
    THEN cusp <= longitude /\ longitude < next_cusp
    ELSE longitude >= cusp \/ longitude < next_cusp

\* the houses whose interval holds the longitude
HousesHolding(longitude, houses) ==
    { i \in 1..12 : InCuspInterval(longitude, houses[i].cusp_longitude,
                                   houses[(i % 12) + 1].cusp_longitude) }

\* strictly increasing in cyclic order, passing through 360 exactly once
Consistent(houses) ==
    /\ Cardinality({ i \in 1..12 : houses[(i % 12) + 1].cusp_longitude
                                      < houses[i].cusp_longitude }) = 1
    /\ \A i \in 1..12 : houses[(i % 12) + 1].cusp_longitude # houses[i].cusp_longitude

get_planet_house_distance(planet_longitude, ascendant_sign_num) ==
    Abs(((planet_longitude \div 1800) + 1) - ascendant_sign_num) + 1

get_planet_house(planet_longitude, ascendant_sign_num) ==
    LET planet_sign == (planet_longitude \div 1800) + 1
    IN  ((planet_sign - ascendant_sign_num) % 12) + 1

\* the keys of KundliCalculator.PLANETS, in the order of the dict
KundliPlanetOrder == PLANETS \o <<"Ketu">>

RECURSIVE RasiLoop(_, _, _, _)
RasiLoop(planets, asc_house, k, chart) ==
    IF k > Len(KundliPlanetOrder) THEN chart
    ELSE LET planet_name == KundliPlanetOrder[k]
             planet_data == planets[planet_name]
             house_num == ((planet_data.sign_num - asc_house) % 12) + 1
         IN  RasiLoop(planets, asc_house, k + 1,
                      [chart EXCEPT ![house_num] =
                          Append(@, [planet |-> planet_name,
                                     degree |-> planet_data.degree,
                                     is_retrograde |-> planet_data.is_retrograde])])

generate_rasi_chart(planets, ascendant) ==
    RasiLoop(planets, ascendant.sign_num, 1, [i \in 1..12 |-> <<>>])

\* both ends of every sign
SignEdgeLongitudes == UNION { {s * 1800, s * 1800 + 1799} : s \in 0..11 }

\* planet sets two months apart, six of them
SamplePlanets == { get_all_planets(julday(61 * k, 0), "Lahiri") : k \in 0..5 }

PlanetHouseRequests ==
    { [op |-> "get_planet_house", planet_longitude |-> l, ascendant_sign_num |-> a] :
        l \in SignEdgeLongitudes, a \in 1..12 }

RasiChartRequests ==
    { [op |-> "generate_rasi_chart", planets |-> p, ascendant |-> [sign_num |-> a]] :
        p \in SamplePlanets, a \in 1..12 }

GetPlanetHouse ==
    Serve("get_planet_house",
          get_planet_house(request.planet_longitude, request.ascendant_sign_num))

GenerateRasiChart ==
    Serve("generate_rasi_chart", generate_rasi_chart(request.planets, request.ascendant))

\* the sign reached from sign by going steps signs forward round the zodiac
SignAfter(sign, steps) == ((sign - 1 + steps) % 12) + 1

\* the houses of a chart that list the planet
HousesListing(chart, planet) ==
    { h \in 1..12 : \E k \in 1..Len(chart[h]) : chart[h][k].planet = planet }

\* C14: with planet and ascendant signs in 1..12, get_planet_house and
\* generate_rasi_chart place a planet in house ((planetSign - ascendantSign) mod 12) + 1:
\* a house in 1..12, counted forward from the ascendant's sign, and house 1
\* exactly when the planet is in the ascendant's sign; ascendant sign 2 and
\* planet sign 5 give house 4.
C14_WholeSignPlacement ==
    /\ Served("get_planet_house") =>
          LET planet_sign == (request.planet_longitude \div 1800) + 1
          IN  /\ ret \in 1..12
              /\ SignAfter(request.ascendant_sign_num, ret - 1) = planet_sign
              /\ (ret = 1) <=> (planet_sign = request.ascendant_sign_num)
              /\ (request.ascendant_sign_num = 2 /\ planet_sign = 5) => ret = 4
    /\ Served("generate_rasi_chart") =>
          \A planet \in PlanetNames :
             LET planet_sign == request.planets[planet].sign_num
                 listing == HousesListing(ret, planet)
             IN  /\ Cardinality(listing) = 1
                 /\ \A h \in listing :
                       /\ SignAfter(request.ascendant.sign_num, h - 1) = planet_sign
                       /\ (h = 1) <=> (planet_sign = request.ascendant.sign_num)
                       /\ h = get_planet_house(request.planets[planet].longitude,
                                               request.ascendant.sign_num)

\* ascendant in Taurus (sign 2), planet in Leo (sign 5)
C14_Witness ==
    /\ Served("get_planet_house")
    /\ request.ascendant_sign_num = 2
    /\ request.planet_longitude \div 1800 = 4
    /\ ret = 4

(***************************************************************************)
(* Aspects: BaseCalculator.get_aspect_angle and check_aspect.  The None    *)
(* that check_aspect returns for no aspect is the string NoAspect here.    *)
(***************************************************************************)
NoAspect == "None"

\* a mutation of get_aspect_angle: the difference is not folded back under 180 degrees
get_aspect_angle_unfolded(lon1, lon2) == Abs(lon1 - lon2)

get_aspect_angle(lon1, lon2) ==
    LET diff == Abs(lon1 - lon2)
    IN  IF diff > 10800 THEN 21600 - diff ELSE diff

check_aspect(lon1, lon2, orb) ==
    LET angle == get_aspect_angle(lon1, lon2)
    IN  CASE angle <= orb -> "Conjunction"
          [] angle > orb /\ 10320 <= angle /\ angle <= 11280 -> "Opposition"
          [] angle > orb /\ 6840 <= angle /\ angle <= 7560 -> "Trine"
          [] angle > orb /\ 5040 <= angle /\ angle <= 5760 -> "Square"
          [] angle > orb /\ 3240 <= angle /\ angle <= 3960 -> "Sextile"
          [] OTHER -> NoAspect

\* the default orb, 8 degrees
DefaultOrb == 480

\* separations at the edges of every band and one arcminute either side, and
\* those of 40, 90 and 183 degrees
AspectSeparations ==
    LET edges == {0, 480, 3240, 3960, 5040, 5760, 6840, 7560, 10320, 10800}
        forward == UNION { {e, e + 1, (e - 1) % 21600} : e \in edges } \cup {2400, 5400, 10980}
    IN  forward \cup { (21600 - s) % 21600 : s \in forward }

AspectBases == {0, 1027, 20000}

CheckAspectRequests ==
    { [op |-> "check_aspect", lon1 |-> b, lon2 |-> (b + s) % 21600] :
        b \in AspectBases, s \in AspectSeparations }

CheckAspect ==
    Serve("check_aspect", check_aspect(request.lon1, request.lon2, DefaultOrb))

\* the shorter way round the circle between two longitudes, in [0, 180] degrees
Separation(lon1, lon2) ==
    LET a == (lon1 - lon2) % 21600
        b == (lon2 - lon1) % 21600
    IN  IF a < b THEN a ELSE b

\* C17: check_aspect with the default orb depends only on the angular distance d
\* of its arguments and is symmetric in them: Conjunction iff d <= 8, Opposition
\* iff d >= 172, Trine iff 114 <= d <= 126, Square iff 84 <= d <= 96, Sextile iff
\* 54 <= d <= 66, and no aspect otherwise; separations of 90, 183 and 40 degrees
\* give Square, Opposition and no aspect.
C17_AspectBands ==
    Served("check_aspect") =>
        LET d == Separation(request.lon1, request.lon2)
        IN  /\ get_aspect_angle(request.lon1, request.lon2) = d
            /\ ret = check_aspect(request.lon2, request.lon1, DefaultOrb)
            /\ ret = check_aspect(0, d, DefaultOrb)
            /\ (ret = "Conjunction") <=> (d <= 480)
            /\ (ret = "Opposition") <=> (d >= 10320)
            /\ (ret = "Trine") <=> (6840 <= d /\ d <= 7560)
            /\ (ret = "Square") <=> (5040 <= d /\ d <= 5760)
            /\ (ret = "Sextile") <=> (3240 <= d /\ d <= 3960)
            /\ (ret = NoAspect) <=> ~(\/ d <= 480
                                      \/ d >= 10320
                                      \/ (6840 <= d /\ d <= 7560)
                                      \/ (5040 <= d /\ d <= 5760)
                                      \/ (3240 <= d /\ d <= 3960))
            /\ (request.lon2 - request.lon1) % 21600 = 5400 => ret = "Square"
            /\ (request.lon2 - request.lon1) % 21600 = 10980 => ret = "Opposition"
            /\ (request.lon2 - request.lon1) % 21600 = 2400 => ret = NoAspect

\* 183 degrees apart, the second longitude past 360: the distance is 177 degrees
C17_Witness ==
    /\ Served("check_aspect")
    /\ request.lon1 = 20000
    /\ request.lon2 = (20000 + 10980) % 21600
    /\ ret = "Opposition"

(***************************************************************************)
(* TransitCalculator.analyze_transit_aspects, one call at a time.          *)
(***************************************************************************)
\* natal Sun ten degrees apart round the circle, natal Moon 90 degrees on,
\* and a natal Ketu on the Sun
NatalLists ==
    { <<[planet |-> "Sun", longitude |-> 600 * k],
        [planet |-> "Moon", longitude |-> (600 * k + 5400) % 21600],
        [planet |-> "Ketu", longitude |-> 600 * k]>> : k \in 0..35 }

TransitAspectRequests ==
    { [op |-> "analyze_transit_aspects", transits |-> t, natal_planets |-> n] :
        t \in SamplePlanets, n \in NatalLists }

AnalyzeTransitAspects ==
    Serve("analyze_transit_aspects",
          analyze_transit_aspects(request.transits, request.natal_planets))

\* the entries of an aspect list for one transiting and one natal planet
ReportedFor(aspects, transit_planet, natal_planet) ==
    { k \in 1..Len(aspects) : /\ aspects[k].transit_planet = transit_planet
                              /\ aspects[k].natal_planet = natal_planet }

\* C15: analyze_transit_aspects reports a (transiting, natal) pair exactly when
\* check_aspect with orb 8 finds an aspect between the two longitudes, and with
\* the type check_aspect gives; a pair with Rahu or Ketu on either side is never
\* reported.
C15_AspectsAgreeWithCheckAspect ==
    Served("analyze_transit_aspects") =>
        \A transit_planet \in PlanetNames, n \in 1..Len(request.natal_planets) :
            LET natal == request.natal_planets[n]
                found == check_aspect(request.transits[transit_planet].longitude,
                                      natal.longitude, DefaultOrb)
                reported == ReportedFor(ret, transit_planet, natal.planet)
            IN  IF transit_planet \in {"Rahu", "Ketu"} \/ natal.planet \in {"Rahu", "Ketu"}
                THEN reported = {}
                ELSE /\ (reported # {}) <=> (found # NoAspect)
                     /\ \A k \in reported : ret[k].aspect_type = found

(***************************************************************************)
(* TransitCalculator.check_sade_sati, one call at a time.  The phase None  *)
(* of a Moon outside Sade Sati is phase 0 in check_sade_sati above.        *)
(***************************************************************************)
SadeSatiRequests ==
    { [op |-> "check_sade_sati", natal_moon_sign |-> m, current_saturn_sign |-> s] :
        m \in 1..12, s \in 1..12 }

CheckSadeSati ==
    Serve("check_sade_sati",
          check_sade_sati(request.natal_moon_sign, request.current_saturn_sign))

\* C16: for natal Moon sign m and Saturn sign s in 1..12, check_sade_sati reports
\* Sade Sati exactly when s is the sign before m (phase 1), m itself (phase 2) or
\* the sign after m (phase 3), going round between 12 and 1, that is when
\* calculate_transit_from_moon(s, m) is 12, 1 or 2; otherwise no phase.  For
\* m = 2 the signs 1, 2, 3 give the phases 1, 2, 3 and every other sign none.
C16_SadeSatiPhases ==
    Served("check_sade_sati") =>
        LET m == request.natal_moon_sign
            s == request.current_saturn_sign
            house == calculate_transit_from_moon(s, m)
        IN  /\ ret.in_sade_sati <=> (SignAfter(s, 1) = m \/ s = m \/ SignAfter(m, 1) = s)
            /\ (ret.phase = 1) <=> (SignAfter(s, 1) = m)
            /\ (ret.phase = 2) <=> (s = m)
            /\ (ret.phase = 3) <=> (SignAfter(m, 1) = s)
            /\ (ret.phase = 1) <=> (house = 12)
            /\ (ret.phase = 2) <=> (house = 1)
            /\ (ret.phase = 3) <=> (house = 2)
            /\ ret.phase \in 0..3
            /\ (ret.phase = 0) <=> ~ret.in_sade_sati
            /\ m = 2 => ret.phase = (IF s \in 1..3 THEN s ELSE 0)

\* Moon in Aries, Saturn in Pisces: the rising phase across the wrap
C16_Witness ==
    /\ Served("check_sade_sati")
    /\ request.natal_moon_sign = 1
    /\ request.current_saturn_sign = 12
    /\ ret.in_sade_sati
    /\ ret.phase = 1

(***************************************************************************)
(* The nakshatra of a longitude, in the three calculators that compute it. *)
(***************************************************************************)
\* _get_nakshatra_lord's table
NakshatraLordCycle ==
    <<"Ketu", "Venus", "Sun", "Moon", "Mars", "Rahu", "Jupiter", "Saturn", "Mercury">>

\* the start of every nakshatra and of every pada, one arcminute either side of
\* each, the end of the circle, and 32.8 degrees
NakshatraLongitudes ==
    UNION { {200 * k, 200 * k + 1, 200 * k + 199} : k \in 0..107 } \cup {1968}

NakshatraRequests ==
    { [op |-> "calculate_nakshatra", longitude |-> l] : l \in NakshatraLongitudes }

\* the three computations of one longitude, side by side
CalculateNakshatra ==
    Serve("calculate_nakshatra",
          [base |-> calculate_nakshatra(request.longitude),
           kundli |-> kundli_calculate_nakshatra(request.longitude),
           dasha |-> get_nakshatra_from_moon(request.longitude),
           birth_dasha_lord |-> get_birth_dasha_lord(request.longitude)])

_normalize_sign_once(sign_num) ==
    IF sign_num > 12 THEN sign_num - 12
    ELSE IF sign_num < 1 THEN sign_num + 12
    ELSE sign_num

RECURSIVE _normalize_sign(_)
_normalize_sign(sign_num) ==
    IF sign_num > 12 THEN _normalize_sign(sign_num - 12)
    ELSE IF sign_num < 1 THEN _normalize_sign(sign_num + 12)
    ELSE sign_num

\* int(longitude / 30) + 1
SignNumOf(longitude) == (longitude \div 1800) + 1

\* longitude % 30
DegreeInSign(longitude) == longitude % 1800

\* int(degree_in_sign / (30/n)) + 1, and n when that is above n
PartOf(longitude, n) ==
    LET part == ((DegreeInSign(longitude) * n) \div 1800) + 1
    IN  IF part > n THEN n ELSE part

movable_signs == {1, 4, 7, 10}

fixed_signs == {2, 5, 8, 11}

calculate_d1_rasi(longitude) ==
    LET sign_num == SignNumOf(longitude)
    IN  [chart |-> "D1", name |-> "Rasi (Main Chart)", sign_num |-> sign_num,
         sign |-> SIGNS[sign_num], degree |-> DegreeInSign(longitude),
         purpose |-> "Overall life, personality, general indications"]

calculate_d2_hora(longitude) ==
    LET sign_num == SignNumOf(longitude)
        first_half == DegreeInSign(longitude) < 900
        hora_sign == IF sign_num % 2 = 1
                     THEN (IF first_half THEN 5 ELSE 4)
                     ELSE (IF first_half THEN 4 ELSE 5)
    IN  [chart |-> "D2", name |-> "Hora", sign_num |-> hora_sign,
         sign |-> SIGNS[hora_sign], purpose |-> "Wealth, financial prosperity"]

calculate_d3_drekkana(longitude) ==
    LET sign_num == SignNumOf(longitude)
        decan == (DegreeInSign(longitude) \div 600) + 1
        d3_sign == _normalize_sign(sign_num + (decan - 1) * 4)
    IN  [chart |-> "D3", name |-> "Drekkana", sign_num |-> d3_sign,
         sign |-> SIGNS[d3_sign], decan |-> decan,
         purpose |-> "Siblings, courage, co-borns"]

calculate_d4_chaturthamsa(longitude) ==
    LET sign_num == SignNumOf(longitude)
        quarter == PartOf(longitude, 4)
        d4_sign == _normalize_sign(sign_num + (quarter - 1) * 3)
    IN  [chart |-> "D4", name |-> "Chaturthamsa", sign_num |-> d4_sign,
         sign |-> SIGNS[d4_sign], quarter |-> quarter,
         purpose |-> "Property, real estate, fortune"]

calculate_d7_saptamsa(longitude) ==
    LET sign_num == SignNumOf(longitude)
        seventh == PartOf(longitude, 7)
        d7_sign == _normalize_sign(IF sign_num % 2 = 1
                                   THEN sign_num + (seventh - 1)
                                   ELSE sign_num + 6 + (seventh - 1))
    IN  [chart |-> "D7", name |-> "Saptamsa", sign_num |-> d7_sign,
         sign |-> SIGNS[d7_sign], purpose |-> "Children, progeny, grandchildren"]

calculate_d9_navamsa(longitude) ==
    LET sign_num == SignNumOf(longitude)
        navamsa == PartOf(longitude, 9)
        element_group == (sign_num - 1) % 4
        d9_sign == _normalize_sign(CASE element_group = 0 -> 1 + (navamsa - 1)
                                     [] element_group = 1 -> 10 + (navamsa - 1)
                                     [] element_group = 2 -> 7 + (navamsa - 1)
                                     [] OTHER -> 4 + (navamsa - 1))
    IN  [chart |-> "D9", name |-> "Navamsa", sign_num |-> d9_sign,
         sign |-> SIGNS[d9_sign], navamsa |-> navamsa,
         purpose |-> "Marriage, dharma, spiritual strength"]

calculate_d10_dasamsa(longitude) ==
    LET sign_num == SignNumOf(longitude)
        tenth == PartOf(longitude, 10)
        d10_sign == _normalize_sign(IF sign_num % 2 = 1
                                    THEN sign_num + (tenth - 1)
                                    ELSE sign_num + 8 + (tenth - 1))
    IN  [chart |-> "D10", name |-> "Dasamsa", sign_num |-> d10_sign,
         sign |-> SIGNS[d10_sign], purpose |-> "Career, profession, achievements"]

calculate_d12_dwadasamsa(longitude) ==
    LET sign_num == SignNumOf(longitude)
        twelfth == PartOf(longitude, 12)
        d12_sign == _normalize_sign(sign_num + (twelfth - 1))
    IN  [chart |-> "D12", name |-> "Dwadasamsa", sign_num |-> d12_sign,
         sign |-> SIGNS[d12_sign], purpose |-> "Parents, ancestors, lineage"]

calculate_d16_shodasamsa(longitude) ==
    LET sign_num == SignNumOf(longitude)
        sixteenth == PartOf(longitude, 16)
        d16_sign == _normalize_sign(CASE sign_num \in movable_signs -> 1 + (sixteenth - 1)
                                      [] sign_num \in fixed_signs -> 5 + (sixteenth - 1)
                                      [] OTHER -> 9 + (sixteenth - 1))
    IN  [chart |-> "D16", name |-> "Shodasamsa", sign_num |-> d16_sign,
         sign |-> SIGNS[d16_sign], purpose |-> "Vehicles, comforts, happiness"]

calculate_d20_vimsamsa(longitude) ==
    LET sign_num == SignNumOf(longitude)
        twentieth == PartOf(longitude, 20)
        d20_sign == _normalize_sign(CASE sign_num \in movable_signs -> 1 + (twentieth - 1)
                                      [] sign_num \in fixed_signs -> 9 + (twentieth - 1)
                                      [] OTHER -> 5 + (twentieth - 1))
    IN  [chart |-> "D20", name |-> "Vimsamsa", sign_num |-> d20_sign,
         sign |-> SIGNS[d20_sign], purpose |-> "Spiritual practices, worship, devotion"]

calculate_d24_chaturvimsamsa(longitude) ==
    LET sign_num == SignNumOf(longitude)
        twentyfourth == PartOf(longitude, 24)
        d24_sign == _normalize_sign(IF sign_num % 2 = 1
                                    THEN 5 + (twentyfourth - 1)
                                    ELSE 4 + (twentyfourth - 1))
    IN  [chart |-> "D24", name |-> "Chaturvimsamsa", sign_num |-> d24_sign,
         sign |-> SIGNS[d24_sign], purpose |-> "Education, learning, knowledge"]

calculate_d27_nakshatramsa(longitude) ==
    LET sign_num == SignNumOf(longitude)
        part == PartOf(longitude, 27)
        d27_sign == _normalize_sign(CASE sign_num \in {1, 5, 9} -> 1 + (part - 1)
                                      [] sign_num \in {2, 6, 10} -> 4 + (part - 1)
                                      [] sign_num \in {3, 7, 11} -> 7 + (part - 1)
                                      [] OTHER -> 10 + (part - 1))
    IN  [chart |-> "D27", name |-> "Nakshatramsa", sign_num |-> d27_sign,
         sign |-> SIGNS[d27_sign], purpose |-> "Strengths, weaknesses, overall nature"]

calculate_d30_trimsamsa(longitude) ==
    LET sign_num == SignNumOf(longitude)
        degree_int == DegreeInSign(longitude) \div 60
        d30_sign == _normalize_sign(
            IF sign_num % 2 = 1
            THEN CASE degree_int < 5 -> sign_num
                   [] degree_int >= 5 /\ degree_int < 10 -> sign_num + 10
                   [] degree_int >= 10 /\ degree_int < 18 -> sign_num + 8
                   [] degree_int >= 18 /\ degree_int < 25 -> sign_num + 6
                   [] OTHER -> sign_num + 4
            ELSE CASE degree_int < 5 -> sign_num + 4
                   [] degree_int >= 5 /\ degree_int < 12 -> sign_num + 6
                   [] degree_int >= 12 /\ degree_int < 20 -> sign_num + 8
                   [] degree_int >= 20 /\ degree_int < 25 -> sign_num + 10
                   [] OTHER -> sign_num)
    IN  [chart |-> "D30", name |-> "Trimsamsa", sign_num |-> d30_sign,
         sign |-> SIGNS[d30_sign], purpose |-> "Evils, misfortunes, sub-conscious"]

calculate_d40_khavedamsa(longitude) ==
    LET sign_num == SignNumOf(longitude)
        fortieth == PartOf(longitude, 40)
        d40_sign == _normalize_sign(CASE sign_num \in movable_signs -> 1 + (fortieth - 1)
                                      [] sign_num \in fixed_signs -> 5 + (fortieth - 1)
                                      [] OTHER -> 9 + (fortieth - 1))
    IN  [chart |-> "D40", name |-> "Khavedamsa", sign_num |-> d40_sign,
         sign |-> SIGNS[d40_sign], purpose |-> "Auspicious/inauspicious effects"]

calculate_d45_akshavedamsa(longitude) ==
    LET sign_num == SignNumOf(longitude)
        part == PartOf(longitude, 45)
        d45_sign == _normalize_sign(sign_num + (part - 1))
    IN  [chart |-> "D45", name |-> "Akshavedamsa", sign_num |-> d45_sign,
         sign |-> SIGNS[d45_sign], purpose |-> "General character, behavior"]

calculate_d60_shashtiamsa(longitude) ==
    LET sign_num == SignNumOf(longitude)
        sixtieth == PartOf(longitude, 60)
        d60_sign == _normalize_sign(sign_num + (sixtieth - 1))
    IN  [chart |-> "D60", name |-> "Shashtiamsa", sign_num |-> d60_sign,
         sign |-> SIGNS[d60_sign], sixtieth |-> sixtieth,
         purpose |-> "Past life karma, complete destiny"]

calculate_all_divisional_charts(longitude) ==
    [D1 |-> calculate_d1_rasi(longitude),
     D2 |-> calculate_d2_hora(longitude),
     D3 |-> calculate_d3_drekkana(longitude),
     D4 |-> calculate_d4_chaturthamsa(longitude),
     D7 |-> calculate_d7_saptamsa(longitude),
     D9 |-> calculate_d9_navamsa(longitude),
     D10 |-> calculate_d10_dasamsa(longitude),
     D12 |-> calculate_d12_dwadasamsa(longitude),
     D16 |-> calculate_d16_shodasamsa(longitude),
     D20 |-> calculate_d20_vimsamsa(longitude),
     D24 |-> calculate_d24_chaturvimsamsa(longitude),
     D27 |-> calculate_d27_nakshatramsa(longitude),
     D30 |-> calculate_d30_trimsamsa(longitude),
     D40 |-> calculate_d40_khavedamsa(longitude),
     D45 |-> calculate_d45_akshavedamsa(longitude),
     D60 |-> calculate_d60_shashtiamsa(longitude)]

\* every arcminute of the circle, which holds every boundary of a part but those
\* of the sevenths and the sixteenths, that fall between two arcminutes
DivisionalLongitudes == 0..21599

DivisionalChartRequests ==
    { [op |-> "calculate_all_divisional_charts", longitude |-> l] : l \in DivisionalLongitudes }

CalculateAllDivisionalCharts ==
    Serve("calculate_all_divisional_charts",
          calculate_all_divisional_charts(request.longitude))

\* the sixteen charts and the number of parts each divides a sign into
DivisionCount ==
    [D1 |-> 1, D2 |-> 2, D3 |-> 3, D4 |-> 4, D7 |-> 7, D9 |-> 9, D10 |-> 10, D12 |-> 12,
     D16 |-> 16, D20 |-> 20, D24 |-> 24, D27 |-> 27, D30 |-> 30, D40 |-> 40, D45 |-> 45,
     D60 |-> 60]

\* the sign numbers handed to _normalize_sign by the charts: 1 to 12 + 10 + 59
RawSigns == 1..81

\* C19: for every longitude in [0, 360) calculate_all_divisional_charts returns
\* exactly the sixteen charts D1, D2, D3, D4, D7, D9, D10, D12, D16, D20, D24, D27,
\* D30, D40, D45 and D60, each with a sign_num in 1..12 and the sign of that number;
\* the part index is never above the chart's division count, _normalize_sign ends
\* with a value in 1..12 congruent to its argument modulo 12, and the D1 sign is
\* floor(L / 30) + 1.
C19_SixteenChartsInRange ==
    Served("calculate_all_divisional_charts") =>
        LET L == request.longitude
        IN  /\ DOMAIN ret = DOMAIN DivisionCount
            /\ \A d \in DOMAIN ret :
                  /\ ret[d].chart = d
                  /\ ret[d].sign_num \in 1..12
                  /\ ret[d].sign = SIGNS[ret[d].sign_num]
                  /\ PartOf(L, DivisionCount[d]) \in 1..DivisionCount[d]
            /\ ret.D3.decan \in 1..3
            /\ ret.D4.quarter \in 1..4
            /\ ret.D9.navamsa \in 1..9
            /\ ret.D60.sixtieth \in 1..60
            /\ ret.D1.sign_num = (L \div 1800) + 1
            /\ ret.D1.sign_num * 1800 > L /\ (ret.D1.sign_num - 1) * 1800 <= L
            /\ \A n \in RawSigns :
                  /\ _normalize_sign(n) \in 1..12
                  /\ (_normalize_sign(n) - n) % 12 = 0
            /\ ret.D60.sign_num = _normalize_sign(ret.D1.sign_num + ret.D60.sixtieth - 1)

\* the last arcminute of the circle: Pisces, in the sixtieth part, five turns
\* of the zodiac further on
C19_Witness ==
    /\ Served("calculate_all_divisional_charts")
    /\ request.longitude = 21599
    /\ ret.D1.sign_num = 12
    /\ ret.D60.sixtieth = 60
    /\ ret.D60.sign_num = 11
    /\ ret.D9.navamsa = 9

(***************************************************************************)
(* Ketu in the planet sets of the three calculators.                       *)
(***************************************************************************)
\* days over one turn of the node, which stays 600 days in a sign; under Lahiri
\* it changes sign between the days 100 k + 39 and 100 k + 40 for k = 3, 9, 15, ...
NodeDays == { 100 * k + j : k \in 0..71, j \in {0, 39, 40} }

PlanetSetRequests ==
    { [op |-> "all_planets", date |-> strptime(d) + h, ayanamsa |-> a] :
        d \in NodeDays, h \in 0..(TicksPerDay - 1), a \in AyanamsaType }

\* the planets of one instant from each of the three calculators
AllPlanetSets ==
    LET jd == julday(strftime(request.date), request.date % TicksPerDay)
    IN  Serve("all_planets",
              [base |-> get_all_planets(jd, request.ayanamsa),
               kundli |-> calculate_all_planets(jd, request.ayanamsa),
               transit |-> get_current_transits(request.date, now, request.ayanamsa)])

\* readings of the node that swe.calc_ut could give: either side of every sign
\* boundary, moving backward, standing still and moving forward
NodeReadings ==
    { [longitude |-> l, sign |-> SIGNS[(l \div 1800) + 1], sign_num |-> (l \div 1800) + 1,
       degree |-> l % 1800, speed |-> s, is_retrograde |-> s < 0] :
        l \in SignEdgeLongitudes, s \in {0 - 3, 0, 3} }

KetuOpposite(rahu, ketu) ==
    /\ ketu.longitude = (rahu.longitude + 10800) % 21600
    /\ ketu.sign_num = SignAfter(rahu.sign_num, 6)
    /\ ketu.sign = SIGNS[ketu.sign_num]
    /\ ketu.degree = rahu.degree
    /\ ketu.is_retrograde = TRUE

TransitFromMoonRequests ==
    { [op |-> "calculate_transit_from_moon", transit_planet_sign |-> t, natal_moon_sign |-> m] :
        t \in 1..12, m \in 1..12 }

CalculateTransitFromMoon ==
    Serve("calculate_transit_from_moon",
          calculate_transit_from_moon(request.transit_planet_sign, request.natal_moon_sign))

\* C21: for each natal Moon sign in 1..12, calculate_transit_from_moon maps the
\* transit signs 1..12 one-to-one onto the houses 1..12: the house returned is in
\* 1..12, no other transit sign has it, every house is that of some transit sign,
\* and the Moon's own sign, and no other, has house 1.
C21_HouseFromMoonBijection ==
    Served("calculate_transit_from_moon") =>
        LET t == request.transit_planet_sign
            m == request.natal_moon_sign
        IN  /\ ret \in 1..12
            /\ \A other \in (1..12) \ {t} : calculate_transit_from_moon(other, m) # ret
            /\ \A house \in 1..12 : \E sign \in 1..12 : calculate_transit_from_moon(sign, m) = house
            /\ (ret = 1) <=> (t = m)

\* a transit sign behind the Moon's: the count goes round through Pisces
C21_Witness ==
    /\ Served("calculate_transit_from_moon")
    /\ request.natal_moon_sign = 10
    /\ request.transit_planet_sign = 3
    /\ ret = 6

(***************************************************************************)
(* calculate_antardasha and calculate_pratyantardasha on parent intervals  *)
(* of any length, from none at all to longer than the nine children.       *)
(***************************************************************************)
\* the days computed for the Antardasha i places after the Mahadasha's lord
NominalAntardashaDays(mahadasha_lord) ==
    [i \in 0..8 |-> AntardashaDays(DASHA_YEARS[mahadasha_lord],
                        DASHA_YEARS[LordAt(LordIndex(mahadasha_lord), i)])]

\* the days computed for the Pratyantardasha i places after the Antardasha's lord
NominalPratyantardashaDays(mahadasha_lord, antardasha_lord) ==
    [i \in 0..8 |-> PratyantardashaDays(DASHA_YEARS[mahadasha_lord],
                        DASHA_YEARS[antardasha_lord],
                        DASHA_YEARS[LordAt(LordIndex(antardasha_lord), i)])]

RECURSIVE DaysThrough(_, _)
DaysThrough(days, i) == IF i < 0 THEN 0 ELSE days[i] + DaysThrough(days, i - 1)

\* parent lengths in ticks: nothing, one tick, one tick before, at and after the
\* computed end of each of the nine children, and ten days past the last of them
ParentLengths(days) ==
    {0, 1} \cup { DaysThrough(days, i) * TicksPerDay + e : i \in 0..8, e \in {0 - 1, 0, 1} }
           \cup { timedelta(DaysThrough(days, 8) + 10) }

AnyAntardashaRequests ==
    { [op |-> "calculate_antardasha", mahadasha_lord |-> r[1],
       mahadasha_start |-> r[2], mahadasha_end |-> r[2] + r[3]] :
        r \in UNION { {l} \X BirthDates \X ParentLengths(NominalAntardashaDays(l)) : l \in Lords } }

AnyPratyantardashaRequests ==
    { [op |-> "calculate_pratyantardasha", mahadasha_lord |-> r[1], antardasha_lord |-> r[2],
       antardasha_start |-> r[3], antardasha_end |-> r[3] + r[4]] :
        r \in UNION { {m} \X {a} \X BirthDates \X ParentLengths(NominalPratyantardashaDays(m, a)) :
                        m \in Lords, a \in Lords } }

\* the children lie inside the parent, day for day; a child that is not the last
\* ended before the parent did (an end that was not clipped falls at the parent
\* start's time of day); a child is as long as computed or is cut at the
\* parent's end; and fewer than nine children reach the parent's end
ClippedInside(children, days, parent_start, parent_end) ==
    /\ Len(children) \in 1..9
    /\ \A k \in 1..Len(children) :
          /\ strftime(parent_start) <= children[k].start_date
          /\ children[k].start_date <= children[k].end_date
          /\ children[k].end_date <= strftime(parent_end)
          /\ DayCount(children[k]) <= days[k - 1]
          /\ DayCount(children[k]) < days[k - 1] => children[k].end_date = strftime(parent_end)
    /\ \A k \in 1..(Len(children) - 1) :
          strptime(children[k].end_date) + (parent_start % TicksPerDay) < parent_end
    /\ Len(children) < 9 => children[Len(children)].end_date = strftime(parent_end)

\* C22: for a parent interval of any length passed to calculate_antardasha or
\* calculate_pratyantardasha, also one shorter than the lord's nominal length,
\* every child satisfies parent start <= child start <= child end <= parent end;
\* a child whose computed end would pass the parent's end is clipped to it, and no
\* child is generated once the parent's end has been reached.
C22_ChildrenClippedToParent ==
    /\ Served("calculate_antardasha") =>
          ClippedInside(ret, NominalAntardashaDays(request.mahadasha_lord),
                        request.mahadasha_start, request.mahadasha_end)
    /\ Served("calculate_pratyantardasha") =>
          ClippedInside(ret,
                        NominalPratyantardashaDays(request.mahadasha_lord, request.antardasha_lord),
                        request.antardasha_start, request.antardasha_end)

\* a parent that ends one tick into its fourth child: three children of full
\* length and a fourth cut down to the parent's end
C22_Witness ==
    /\ Served("calculate_antardasha")
    /\ Len(ret) = 4
    /\ LET days == NominalAntardashaDays(request.mahadasha_lord)
       IN  /\ request.mahadasha_end - request.mahadasha_start
                 = timedelta(DaysThrough(days, 2)) + 1
           /\ DayCount(ret[3]) = days[2]
           /\ DayCount(ret[4]) < days[3]
    /\ ret[4].end_date = strftime(request.mahadasha_end)

(***************************************************************************)
(* HouseSystem: the house dicts of calculate_houses and the strength of    *)
(* the houses.                                                             *)
(***************************************************************************)
SIGN_LORDS ==
    [Aries |-> "Mars", Taurus |-> "Venus", Gemini |-> "Mercury", Cancer |-> "Moon",
     Leo |-> "Sun", Virgo |-> "Mercury", Libra |-> "Venus", Scorpio |-> "Mars",
     Sagittarius |-> "Jupiter", Capricorn |-> "Saturn", Aquarius |-> "Saturn",
     Pisces |-> "Jupiter"]

HOUSE_MEANINGS ==
    <<[name |-> "Lagna/Ascendant",
       signifies |-> <<"Self", "Personality", "Physical body", "Health", "General life">>,
       type |-> "Kendra (Angular)", nature |-> "Very strong"],
      [name |-> "Dhana Bhava",
       signifies |-> <<"Wealth", "Family", "Speech", "Food", "Savings", "Face">>,
       type |-> "Maraka (Death-inflicting)", nature |-> "Neutral"],
      [name |-> "Sahaja Bhava",
       signifies |-> <<"Siblings", "Courage", "Communication", "Short travels", "Skills">>,
       type |-> "Upachaya (Growing)", nature |-> "Moderately strong"],
      [name |-> "Sukha Bhava",
       signifies |-> <<"Mother", "Home", "Property", "Vehicles", "Education", "Happiness">>,
       type |-> "Kendra (Angular)", nature |-> "Very strong"],
      [name |-> "Putra Bhava",
       signifies |-> <<"Children", "Intelligence", "Creativity", "Romance", "Past karma">>,
       type |-> "Trikona (Trine)", nature |-> "Very strong"],
      [name |-> "Ripu Bhava",
       signifies |-> <<"Enemies", "Diseases", "Debts", "Service", "Obstacles">>,
       type |-> "Dusthana (Malefic) & Upachaya", nature |-> "Challenging but grows"],
      [name |-> "Kalatra Bhava",
       signifies |-> <<"Spouse", "Marriage", "Partnership", "Business", "Public">>,
       type |-> "Kendra (Angular) & Maraka", nature |-> "Very strong"],
      [name |-> "Ayu Bhava",
       signifies |-> <<"Longevity", "Death", "Transformation", "Occult", "Inheritance">>,
       type |-> "Dusthana (Malefic)", nature |-> "Very challenging"],
      [name |-> "Dharma Bhava",
       signifies |-> <<"Father", "Fortune", "Spirituality", "Long travels", "Higher learning">>,
       type |-> "Trikona (Trine)", nature |-> "Very strong"],
      [name |-> "Karma Bhava",
       signifies |-> <<"Career", "Profession", "Status", "Authority", "Actions">>,
       type |-> "Kendra (Angular)", nature |-> "Very strong"],
      [name |-> "Labha Bhava",
       signifies |-> <<"Gains", "Income", "Friends", "Ambitions", "Elder siblings">>,
       type |-> "Upachaya (Growing)", nature |-> "Moderately strong"],
      [name |-> "Vyaya Bhava",
       signifies |-> <<"Losses", "Expenses", "Foreign lands", "Spirituality", "Sleep", "Moksha">>,
       type |-> "Dusthana (Malefic)", nature |-> "Challenging"]>>

\* the dicts calculate_houses builds from the twelve sidereal cusps
HouseDicts(first_cusp, offsets) ==
    [i \in 1..12 |->
        LET sidereal_cusp == (first_cusp + offsets[i]) % 21600
            sign_num == sidereal_cusp \div 1800
            sign == SIGNS[sign_num + 1]
        IN  [house_num |-> i,
             cusp_longitude |-> sidereal_cusp,
             sign |-> sign,
             sign_num |-> sign_num + 1,
             degree |-> sidereal_cusp % 1800,
             lord |-> SIGN_LORDS[sign],
             meanings |-> HOUSE_MEANINGS[i]]]

\* a mutation of _get_strength_level: a score has to pass a threshold, not reach it
_get_strength_level_above(score) ==
    CASE score > 80 -> "Very Strong"
      [] score <= 80 /\ score > 60 -> "Strong"
      [] score <= 60 /\ score > 40 -> "Moderate"
      [] score <= 40 /\ score > 25 -> "Weak"
      [] OTHER -> "Very Weak"

_get_strength_level(score) ==
    CASE score >= 80 -> "Very Strong"
      [] score < 80 /\ score >= 60 -> "Strong"
      [] score < 60 /\ score >= 40 -> "Moderate"
      [] score < 40 /\ score >= 25 -> "Weak"
      [] OTHER -> "Very Weak"

RECURSIVE PlanetsInHouse(_, _, _, _, _)
PlanetsInHouse(planets, order, k, houses, house_num) ==
    IF k > Len(order) THEN <<>>
    ELSE LET rest == PlanetsInHouse(planets, order, k + 1, houses, house_num)
         IN  IF order[k] \in DOMAIN planets
                /\ get_planet_house(planets[order[k]].longitude, houses[1].sign_num) = house_num
             THEN <<order[k]>> \o rest
             ELSE rest

Min(a, b) == IF a < b THEN a ELSE b

Max(a, b) == IF a > b THEN a ELSE b

\* planets is a dict in the order of KundliCalculator.PLANETS; the lord_house None
\* of a lord that is not among the planets is 0
analyze_house_strength(houses, planets) ==
    [house_num \in 1..12 |->
        LET house == houses[house_num]
            house_lord == house.lord
            lord_house == IF house_lord \in DOMAIN planets
                          THEN get_planet_house(planets[house_lord].longitude, houses[1].sign_num)
                          ELSE 0
            planets_in_house == PlanetsInHouse(planets, KundliPlanetOrder, 1, houses, house_num)
            strength_score == 50
                + (IF house_num \in {1, 4, 7, 10} THEN 20 ELSE 0)
                + (IF house_num \in {1, 5, 9} THEN 25 ELSE 0)
                - (IF house_num \in {6, 8, 12} THEN 25 ELSE 0)
                + Len(planets_in_house) * 5
        IN  [house_info |-> house.meanings,
             sign |-> house.sign,
             lord |-> house_lord,
             lord_placed_in_house |-> lord_house,
             planets_in_house |-> planets_in_house,
             num_planets |-> Len(planets_in_house),
             strength_score |-> Min(100, Max(0, strength_score)),
             strength_level |-> _get_strength_level(strength_score)]]

\* house lists with the first cusp in each of the twelve signs
SignHouses == { HouseDicts(1800 * s + 1027, o) : s \in 0..11, o \in CuspOffsets }

\* the first count planets of the dict in one sign, the others in the sign after it
PlanetsGathered(sign, count) ==
    [name \in PlanetNames |->
        [longitude |-> IF \E k \in 1..count : KundliPlanetOrder[k] = name
                       THEN (sign - 1) * 1800 + 100 * count
                       ELSE (SignAfter(sign, 1) - 1) * 1800 + 1799]]

HouseStrengthRequests ==
    { [op |-> "analyze_house_strength", houses |-> h, planets |-> PlanetsGathered(s, n)] :
        h \in SignHouses, s \in 1..12, n \in 0..9 }

AnalyzeHouseStrength ==
    Serve("analyze_house_strength", analyze_house_strength(request.houses, request.planets))

\* the planets of the dict that are in the house, by sign counted from the first house's
Occupants(house_num) ==
    { p \in DOMAIN request.planets :
        SignAfter(request.houses[1].sign_num, house_num - 1)
            = (request.planets[p].longitude \div 1800) + 1 }

\* C23: for every house 1..12 and every number 0..9 of planets in it,
\* analyze_house_strength reports the score 50, plus 20 in houses 1, 4, 7, 10, plus
\* 25 in houses 1, 5, 9, less 25 in houses 6, 8, 12, plus 5 for each occupant, kept
\* within 0..100; and the level it reports is the one the thresholds give to
\* that reported score: Very Strong from 80, Strong from 60, Moderate from 40, Weak
\* from 25, Very Weak below.
C23_HouseStrength ==
    Served("analyze_house_strength") =>
        /\ DOMAIN ret = 1..12
        /\ \A h \in 1..12 :
              LET n == Cardinality(Occupants(h))
                  raw == 50 + (IF h \in {1, 4, 7, 10} THEN 20 ELSE 0)
                            + (IF h \in {1, 5, 9} THEN 25 ELSE 0)
                            - (IF h \in {6, 8, 12} THEN 25 ELSE 0) + 5 * n
                  score == ret[h].strength_score
              IN  /\ ret[h].num_planets = n
                  /\ Range(ret[h].planets_in_house) = Occupants(h)
                  /\ score = (IF raw > 100 THEN 100 ELSE IF raw < 0 THEN 0 ELSE raw)
                  /\ (ret[h].strength_level = "Very Strong") <=> (score >= 80)
                  /\ (ret[h].strength_level = "Strong") <=> (score >= 60 /\ score < 80)
                  /\ (ret[h].strength_level = "Moderate") <=> (score >= 40 /\ score < 60)
                  /\ (ret[h].strength_level = "Weak") <=> (score >= 25 /\ score < 40)
                  /\ (ret[h].strength_level = "Very Weak") <=> (score < 25)

\* all nine planets in the first house, whose score of 140 is reported as 100,
\* while the empty sixth house sits on the threshold of Weak
C23_Witness ==
    /\ Served("analyze_house_strength")
    /\ ret[1].num_planets = 9
    /\ ret[1].strength_score = 100
    /\ ret[1].strength_level = "Very Strong"
    /\ ret[6].num_planets = 0
    /\ ret[6].strength_score = 25
    /\ ret[6].strength_level = "Weak"

(***************************************************************************)
(* The periods get_current_dasha returns.                                  *)
(***************************************************************************)
\* the midnights of the period's two dates have the date between them
ContainsDate(period, date) ==
    /\ strptime(period.start_date) <= date
    /\ date <= strptime(period.end_date)

\* the inner period's dates are within the outer period's
InsidePeriod(inner, outer) ==
    /\ outer.start_date <= inner.start_date
    /\ inner.start_date <= inner.end_date
    /\ inner.end_date <= outer.end_date

\* C24: whenever get_current_dasha returns a result, its periods are nested and
\* all contain the query date: the date lies within the returned Mahadasha's start
\* and end dates; the returned Antardasha names that Mahadasha's lord as
\* mahadasha_lord, lies inside the Mahadasha and contains the date; and the
\* returned Pratyantardasha, when there is one, lies inside that Antardasha and
\* contains the date.
C24_CurrentPeriodsNested ==
    (Served("get_current_dasha") /\ ret # None) =>
        /\ ret.mahadasha \in Range(MahadashasOf(request.moon_longitude, request.birth_date))
        /\ ContainsDate(ret.mahadasha, QueryDate)
        /\ ret.antardasha.mahadasha_lord = ret.mahadasha.lord
        /\ InsidePeriod(ret.antardasha, ret.mahadasha)
        /\ ContainsDate(ret.antardasha, QueryDate)
        /\ ret.pratyantardasha # None =>
              /\ ret.pratyantardasha.mahadasha_lord = ret.mahadasha.lord
              /\ ret.pratyantardasha.antardasha_lord = ret.antardasha.antardasha_lord
              /\ InsidePeriod(ret.pratyantardasha, ret.antardasha)
              /\ ContainsDate(ret.pratyantardasha, QueryDate)
        /\ ret.current_date = strftime(QueryDate)

\* a query date with a time of day, in an Antardasha that is not the Mahadasha's
\* first and a Pratyantardasha that is not the Antardasha's first
C24_Witness ==
    /\ Served("get_current_dasha")
    /\ ret # None
    /\ ret.pratyantardasha # None
    /\ QueryDate % TicksPerDay # 0
    /\ ret.antardasha.antardasha_lord # ret.mahadasha.lord
    /\ ret.pratyantardasha.start_date > ret.antardasha.start_date

(***************************************************************************)
(* The label of a kundli served by /kundli/generate.                       *)
(***************************************************************************)
\* C25: the ayanamsa named in birth_details of a kundli returned by
\* generate_kundli is the sidereal mode its longitudes were computed under, for
\* every ayanamsa asked of /kundli/generate and whatever calculators were
\* constructed or requests served before.
C25_KundliLabelIsMode ==
    \A i \in DOMAIN history :
        history[i].request.op = "generate_kundli" =>
            history[i].ret.birth_details.ayanamsa = history[i].sid_mode

(***************************************************************************)
(* LifetimeAnalysisGenerator._calculate_dasha_periods: three Mahadashas,   *)
(* the first of the balance of the birth nakshatra.  The rounded           *)
(* duration_years of the entries is descriptive and is not kept.           *)
(***************************************************************************)
_get_dasha_theme(lord) ==
    CASE lord = "Sun" -> "Authority, leadership, and recognition"
      [] lord = "Moon" -> "Emotions, intuition, and public connection"
      [] lord = "Mars" -> "Action, courage, and assertiveness"
      [] lord = "Mercury" -> "Communication, business, and intellectual growth"
      [] lord = "Jupiter" -> "Wisdom, expansion, and prosperity"
      [] lord = "Venus" -> "Relationships, creativity, and luxury"
      [] lord = "Saturn" -> "Discipline, hard work, and karmic lessons"
      [] lord = "Rahu" -> "Innovation, material success, and transformation"
      [] lord = "Ketu" -> "Spirituality, detachment, and inner growth"
      [] OTHER -> "Personal development"

\* the first period lasts int(total_years * balance * 365.25) days, balance being
\* balance_num / nakshatra_span
RECURSIVE LifetimeMahadashaLoop(_, _, _, _, _)
LifetimeMahadashaLoop(start_index, balance_num, i, current_date, mahadashas) ==
    IF i >= 3 THEN mahadashas
    ELSE LET lord == LordAt(start_index, i)
             days == IF i > 0 THEN YearsToDays(DASHA_YEARS[lord])
                     ELSE (DASHA_YEARS[lord] * balance_num * 1461) \div (nakshatra_span * 4)
             end_date == current_date + timedelta(days)
         IN  LifetimeMahadashaLoop(start_index, balance_num, i + 1, end_date,
                 Append(mahadashas,
                     [lord |-> lord,
                      start_date |-> strftime(current_date),
                      end_date |-> strftime(end_date),
                      theme |-> _get_dasha_theme(lord)]))

RECURSIVE CurrentOf(_, _, _)
CurrentOf(mahadashas, i, clock) ==
    IF i > Len(mahadashas) THEN mahadashas[1]
    ELSE IF strptime(mahadashas[i].start_date) <= clock
            /\ clock <= strptime(mahadashas[i].end_date)
         THEN mahadashas[i]
         ELSE CurrentOf(mahadashas, i + 1, clock)

_calculate_dasha_periods(moon_lon, birth_date, clock) ==
    LET nakshatra_num == moon_lon \div nakshatra_span
        balance_num == nakshatra_span - (moon_lon % nakshatra_span)
        birth_dasha_lord == NAKSHATRA_LORDS[nakshatra_num + 1]
        mahadashas == LifetimeMahadashaLoop(LordIndex(birth_dasha_lord), balance_num, 0,
                                            birth_date, <<>>)
    IN  [mahadashas |-> mahadashas,
         current |-> CurrentOf(mahadashas, 1, clock),
         birth_dasha |-> birth_dasha_lord]

DashaPeriodsRequests ==
    { [op |-> "_calculate_dasha_periods", moon_lon |-> m, birth_date |-> b] :
        m \in MoonLongitudes, b \in BirthDates }

CalculateDashaPeriods ==
    Serve("_calculate_dasha_periods",
          _calculate_dasha_periods(request.moon_lon, request.birth_date, now))

\* C26: for the same Moon longitude and birth date, the first three Mahadashas of
\* LifetimeAnalysisGenerator._calculate_dasha_periods have the lords, the start
\* dates and the end dates of the first three Mahadashas of DashaCalculator's
\* calculate_mahadasha_sequence, as generate_complete_dasha_timeline calls it.
C26_LifetimeMahadashasAgree ==
    Served("_calculate_dasha_periods") =>
        LET mahadashas == MahadashasOf(request.moon_lon, request.birth_date)
        IN  /\ Len(ret.mahadashas) = 3
            /\ \A i \in 1..3 :
                  /\ ret.mahadashas[i].lord = mahadashas[i].lord
                  /\ ret.mahadashas[i].start_date = mahadashas[i].start_date
                  /\ ret.mahadashas[i].end_date = mahadashas[i].end_date

(***************************************************************************)
(* ComprehensiveKundliGenerator._get_julian_day.  The hour of the day is a *)
(* tick, and a timezone offset a whole number of ticks, for which          *)
(* int((timezone % 1) * 60) is 0 and the minute is left as it is.          *)
(* datetime.replace raises ValueError for an hour outside the day; the     *)
(* call then returns nothing, which is the record with the error.          *)
(***************************************************************************)
comprehensive_get_julian_day(date_str, time_str, timezone) ==
    LET hour == time_str - timezone
    IN  IF hour < 0 \/ hour > TicksPerDay - 1
        THEN [error |-> "ValueError"]
        ELSE [jd |-> julday(date_str, hour)]

ComprehensiveJulianDayRequests ==
    { [op |-> "ComprehensiveKundliGenerator._get_julian_day", date_str |-> strftime(d),
       time_str |-> d % TicksPerDay, timezone |-> z] :
        d \in LocalDateTimes, z \in TimezoneOffsets }

ComprehensiveGetJulianDay ==
    Serve("ComprehensiveKundliGenerator._get_julian_day",
          comprehensive_get_julian_day(request.date_str, request.time_str, request.timezone))

\* C27: for every local birth time and every timezone offset,
\* ComprehensiveKundliGenerator._get_julian_day raises no error and returns the
\* Julian Day that KundliCalculator._get_julian_day returns for the same local
\* date-time and offset, also when subtracting the offset moves the time before
\* 00:00 or past 23:59.
C27_ComprehensiveJulianDayAgrees ==
    Served("ComprehensiveKundliGenerator._get_julian_day") =>
        /\ DOMAIN ret = {"jd"}
        /\ ret.jd = kundli_get_julian_day(strptime(request.date_str) + request.time_str,
                                          request.timezone)

(***************************************************************************)
(* BaseCalculator.calculate_house_from_ascendant, the house the daily,     *)
(* yearly and lifetime generators ask for, called with the longitude of    *)
(* a planet and the longitude of the ascendant.                            *)
(***************************************************************************)
\* the ascendant at the start, in the middle and at the end of every sign
AscendantLongitudes == UNION { {s * 1800, s * 1800 + 900, s * 1800 + 1799} : s \in 0..11 }

\* the planet at both ends and in the middle of every sign
PlanetLongitudes == SignEdgeLongitudes \cup { s * 1800 + 900 : s \in 0..11 }

HouseFromAscendantRequests ==
    { [op |-> "calculate_house_from_ascendant", planet_lon |-> p, asc_lon |-> a] :
        p \in PlanetLongitudes, a \in AscendantLongitudes }

CalculateHouseFromAscendant ==
    Serve("calculate_house_from_ascendant",
          calculate_house_from_ascendant(request.planet_lon, request.asc_lon))

\* C28: for all planet and ascendant longitudes in [0, 360),
\* calculate_house_from_ascendant(planet_lon, asc_lon) equals
\* HouseSystem.get_planet_house(planet_lon, the ascendant's sign number), the
\* sign-offset house of the birth chart: a planet gets the same house number
\* from both.
C28_HouseFromAscendantIsSignOffset ==
    Served("calculate_house_from_ascendant") =>
        ret = get_planet_house(request.planet_lon, (request.asc_lon \div 1800) + 1)

(***************************************************************************)
(* HouseSystem.check_planetary_yogas_by_house.  The description of a yoga, *)
(* a formatted string, is the tuple of the pieces the format joins.        *)
(***************************************************************************)
kendras == <<1, 4, 7, 10>>

trikonas == <<1, 5, 9>>

\* the planet of every key of the dict, by get_planet_house from the first house's sign
PlanetHousesOf(houses, planets) ==
    [name \in DOMAIN planets |->
        get_planet_house(planets[name].longitude, houses[1].sign_num)]

RECURSIVE RajYogaLoop(_, _, _, _, _)
RajYogaLoop(kendra_lords, trikona_lords, planet_houses, k, t) ==
    IF k > Len(kendra_lords) THEN <<>>
    ELSE IF kendra_lords[k] \notin DOMAIN planet_houses \/ t > Len(trikona_lords)
    THEN RajYogaLoop(kendra_lords, trikona_lords, planet_houses, k + 1, 1)
    ELSE LET kendra_lord == kendra_lords[k]
             trikona_lord == trikona_lords[t]
             kendra_house == planet_houses[kendra_lord]
             rest == RajYogaLoop(kendra_lords, trikona_lords, planet_houses, k, t + 1)
         IN  IF trikona_lord \in DOMAIN planet_houses
                /\ kendra_house = planet_houses[trikona_lord]
             THEN <<[name |-> "Raj Yoga",
                     description |-> <<kendra_lord, " (Kendra lord) with ", trikona_lord,
                                       " (Trikona lord) in house ", kendra_house>>,
                     strength |-> "Strong",
                     effect |-> "Power, authority, success"]>> \o rest
             ELSE rest

DhanaYoga(houses, planet_houses) ==
    LET lord_2 == houses[2].lord
        lord_11 == houses[11].lord
    IN  IF /\ lord_2 \in DOMAIN planet_houses
           /\ lord_11 \in DOMAIN planet_houses
           /\ planet_houses[lord_2] = planet_houses[lord_11]
        THEN <<[name |-> "Dhana Yoga",
                description |-> <<"Lord of 2nd (", lord_2, ") with lord of 11th (",
                                  lord_11, ")">>,
                strength |-> "Strong",
                effect |-> "Wealth accumulation, financial gains"]>>
        ELSE <<>>

RECURSIVE ViparitaLoop(_, _, _)
ViparitaLoop(dusthana_lords, planet_houses, k) ==
    IF k > Len(dusthana_lords) THEN <<>>
    ELSE LET lord == dusthana_lords[k]
             rest == ViparitaLoop(dusthana_lords, planet_houses, k + 1)
         IN  IF lord \in DOMAIN planet_houses /\ planet_houses[lord] \in {6, 8, 12}
             THEN <<[name |-> "Viparita Raja Yoga",
                     description |-> <<lord, " (Dusthana lord) in dusthana house ",
                                       planet_houses[lord]>>,
                     strength |-> "Moderate",
                     effect |-> "Turning difficulties into success"]>> \o rest
             ELSE rest

check_planetary_yogas_by_house(houses, planets) ==
    LET planet_houses == PlanetHousesOf(houses, planets)
        kendra_lords == [i \in 1..Len(kendras) |-> houses[kendras[i]].lord]
        trikona_lords == [i \in 1..Len(trikonas) |-> houses[trikonas[i]].lord]
        dusthana_lords == <<houses[6].lord, houses[8].lord, houses[12].lord>>
    IN  RajYogaLoop(kendra_lords, trikona_lords, planet_houses, 1, 1)
            \o DhanaYoga(houses, planet_houses)
            \o ViparitaLoop(dusthana_lords, planet_houses, 1)

\* the houses of every ascendant sign, equal houses from the ascendant's degree
YogaHouses == { HouseDicts(1800 * s + 1027, [i \in 1..12 |-> 1800 * (i - 1)]) : s \in 0..11 }

YogaRequests ==
    { [op |-> "check_planetary_yogas_by_house", houses |-> h,
       planets |-> PlanetsGathered(s, n)] :
        h \in YogaHouses, s \in 1..12, n \in {0, 3, 6, 9} }

CheckPlanetaryYogasByHouse ==
    Serve("check_planetary_yogas_by_house",
          check_planetary_yogas_by_house(request.houses, request.planets))

\* the two planets a Raj Yoga or a Dhana Yoga names
YogaPair(yoga) ==
    IF yoga.name = "Raj Yoga" THEN <<yoga.description[1], yoga.description[3]>>
    ELSE <<yoga.description[2], yoga.description[4]>>

PairingYogas == {"Raj Yoga", "Dhana Yoga"}

\* C29: every Raj Yoga and every Dhana Yoga that check_planetary_yogas_by_house
\* reports pairs two distinct planets that occupy the same house (a planet that is
\* lord of two of the relevant houses gives no yoga by itself), and each pair of
\* planets is reported at most once.
C29_YogasPairDistinctPlanets ==
    Served("check_planetary_yogas_by_house") =>
        /\ \A i \in DOMAIN ret :
              ret[i].name \in PairingYogas =>
                  LET pair == YogaPair(ret[i])
                  IN  /\ pair[1] # pair[2]
                      /\ get_planet_house(request.planets[pair[1]].longitude,
                                          request.houses[1].sign_num)
                            = get_planet_house(request.planets[pair[2]].longitude,
                                               request.houses[1].sign_num)
        /\ \A i, j \in DOMAIN ret :
              (i < j /\ ret[i].name \in PairingYogas /\ ret[j].name = ret[i].name) =>
                  {YogaPair(ret[i])[1], YogaPair(ret[i])[2]}
                      # {YogaPair(ret[j])[1], YogaPair(ret[j])[2]}

(***************************************************************************)
(* KundliCalculator.generate_navamsa_chart.  get_navamsa_position divides  *)
(* the longitude in degrees by 3.333333; in arcminutes that is the         *)
(* division by 199.99998, the quotient of 50000 longitudes by 9999999.     *)
(***************************************************************************)
\* a mutation of get_navamsa_position: the navamsa is counted inside the sign
get_navamsa_position_in_sign(longitude) == (((longitude % 1800) * 50000) \div 9999999) + 1

get_navamsa_position(longitude) ==
    LET navamsa_num == (longitude * 50000) \div 9999999
    IN  (navamsa_num % 12) + 1

RECURSIVE NavamsaLoop(_, _, _, _)
NavamsaLoop(planets, navamsa_asc, k, chart) ==
    IF k > Len(KundliPlanetOrder) THEN chart
    ELSE LET planet_name == KundliPlanetOrder[k]
             planet_data == planets[planet_name]
             navamsa_sign == get_navamsa_position(planet_data.longitude)
             house_num == ((navamsa_sign - navamsa_asc) % 12) + 1
         IN  NavamsaLoop(planets, navamsa_asc, k + 1,
                         [chart EXCEPT ![house_num] =
                             Append(@, [planet |-> planet_name,
                                        navamsa_sign |-> navamsa_sign,
                                        is_retrograde |->
                                            IF "is_retrograde" \in DOMAIN planet_data
                                            THEN planet_data.is_retrograde
                                            ELSE FALSE])])

generate_navamsa_chart(planets, ascendant) ==
    NavamsaLoop(planets, get_navamsa_position(ascendant.longitude), 1,
                [i \in 1..12 |-> <<>>])

\* the place of a planet in the dict
PlaceOf(name) == CHOOSE k \in 1..Len(KundliPlanetOrder) : KundliPlanetOrder[k] = name

\* nine consecutive arcminutes for the nine planets: every arcminute of the circle
\* is the longitude of one planet of one request
NavamsaChartRequests ==
    { [op |-> "generate_navamsa_chart",
       planets |-> [name \in PlanetNames |->
                       [longitude |-> Len(KundliPlanetOrder) * r + PlaceOf(name) - 1]],
       ascendant |-> [longitude |-> (209 * r) % 21600]] :
        r \in 0..((21600 \div Len(KundliPlanetOrder)) - 1) }

GenerateNavamsaChart ==
    Serve("generate_navamsa_chart", generate_navamsa_chart(request.planets, request.ascendant))

ChartInit ==
    /\ \/ request \in KundliCalculatorRequests
       \/ request \in JulianDayRequests
       \/ request \in BhavaChalitRequests
       \/ request \in FindPlanetHouseRequests
       \/ request \in PlanetHouseRequests
       \/ request \in RasiChartRequests
       \/ request \in CheckAspectRequests
       \/ request \in TransitAspectRequests
       \/ request \in SadeSatiRequests
       \/ request \in NakshatraRequests
       \/ request \in DivisionalChartRequests
       \/ request \in PlanetSetRequests
       \/ request \in TransitFromMoonRequests
       \/ request \in AnyAntardashaRequests
       \/ request \in AnyPratyantardashaRequests
       \/ request \in HouseStrengthRequests
       \/ request \in DashaPeriodsRequests
       \/ request \in ComprehensiveJulianDayRequests
       \/ request \in HouseFromAscendantRequests
       \/ request \in YogaRequests
       \/ request \in NavamsaChartRequests
    /\ pc = "start"
    /\ ret = None
    /\ now = 0
    /\ sid_mode = "Lahiri"
    /\ history = <<>>

ChartNext ==
    \/ NewKundliCalculator
    \/ GetJulianDay
    \/ GetPlanetHouseBhavaChalit
    \/ FindPlanetHouse
    \/ GetPlanetHouse
    \/ GenerateRasiChart
    \/ CheckAspect
    \/ AnalyzeTransitAspects
    \/ CheckSadeSati
    \/ CalculateNakshatra
    \/ CalculateAllDivisionalCharts
    \/ AllPlanetSets
    \/ CalculateTransitFromMoon
    \/ CalculateAntardasha
    \/ CalculatePratyantardasha
    \/ AnalyzeHouseStrength
    \/ CalculateDashaPeriods
    \/ ComprehensiveGetJulianDay
    \/ CalculateHouseFromAscendant
    \/ CheckPlanetaryYogasByHouse
    \/ GenerateNavamsaChart

Chart == ChartInit /\ [][ChartNext]_vars

=============================================================================
